---- MODULE Spec2Model ----
(***************************************************************************)
(* Loudness measurement and gain-decision engine of bluebyte-audio-tools.  *)
(*                                                                         *)
(* Levels (LUFS, LU, dB, dBFS, dBTP) are fixed-point integers: one unit is *)
(* one step of the level grid.  float("-inf") and float("inf") are the two *)
(* values NegInf and PosInf, which lie outside every finite level the      *)
(* model reaches, so that Python's comparisons on them are the integer     *)
(* comparisons; Python's None is the value None.  NaN is not modelled: no  *)
(* input is NaN and no reachable run subtracts two infinities.             *)
(*                                                                         *)
(* One run of a tool is: Init chooses the command line (args), the facts   *)
(* of the environment (env: the decoded audio's peak, what the meters      *)
(* return) and the files on disk; the tool's action runs its entry point   *)
(* to the return statement and leaves the result object in res.            *)
(***************************************************************************)
EXTENDS Integers, Sequences, FiniteSets, TLC

VARIABLES tool, pc, args, env, files, pre_files, written, res

vars == <<tool, pc, args, env, files, pre_files, written, res>>

\* ---------------------------------------------------------------- values

\* float("-inf"): db_from_lin(0.0), pyloudnorm's loudness of a gated-out signal.
NegInf == -10000

\* float("inf"): only ever the negation or the absolute value of NegInf.
PosInf == 10000

\* Python's None in an Optional[float] field.
None == 99999

\* Bound of the finite loudness values a meter returns: -MaxLufs..MaxLufs.
MaxLufs == 2

IsFinite(x) == x # NegInf /\ x # PosInf

\* IEEE negation.
ExtNeg(x) == IF x = NegInf THEN PosInf ELSE IF x = PosInf THEN NegInf ELSE -x

\* IEEE a + b for operands that are not opposite infinities.
ExtAdd(a, b) ==
    IF a = NegInf \/ b = NegInf THEN NegInf
    ELSE IF a = PosInf \/ b = PosInf THEN PosInf
    ELSE a + b

\* IEEE a - b.
ExtSub(a, b) == ExtAdd(a, ExtNeg(b))

\* Python's abs().
ExtAbs(x) == IF x < 0 THEN ExtNeg(x) ELSE x

\* Python's max() and min() of two numbers.
Max2(a, b) == IF b > a THEN b ELSE a

Min2(a, b) == IF b < a THEN b ELSE a

\* ------------------------------------------------------- small utilities

\* A clamp whose lower branch is off by one step.
clamp_off_by_one(x, lo, hi) == IF x < lo THEN lo + 1 ELSE IF x > hi THEN hi ELSE x

\* lufs_analyse.clamp
clamp(x, lo, hi) == IF x < lo THEN lo ELSE IF x > hi THEN hi ELSE x

\* lufs_normalise.clamp
normalise_clamp(x, lo, hi) == IF x < lo THEN lo ELSE IF x > hi THEN hi ELSE x

\* bb_audio._clamp
_clamp(x, lo, hi) == Max2(lo, Min2(hi, x))

\* A gain computation that forgets to clamp.
compute_gain_db_unclamped(current_lufs, target_lufs, min_gain_db, max_gain_db) ==
    ExtNeg(ExtSub(current_lufs, target_lufs))

\* lufs_analyse.compute_gain_db
compute_gain_db(current_lufs, target_lufs, min_gain_db, max_gain_db) ==
    LET raw == ExtNeg(ExtSub(current_lufs, target_lufs))
    IN  clamp(raw, min_gain_db, max_gain_db)

\* lufs_normalise.compute_gain_db
normalise_compute_gain_db(current_lufs, target_lufs, min_gain_db, max_gain_db) ==
    LET raw == ExtNeg(ExtSub(current_lufs, target_lufs))
    IN  normalise_clamp(raw, min_gain_db, max_gain_db)

\* bb_audio.compute_gain_db
bb_compute_gain_db(measured_lufs, target_lufs, min_gain_db, max_gain_db) ==
    LET gain == ExtSub(target_lufs, measured_lufs)
    IN  _clamp(gain, min_gain_db, max_gain_db)

\* ---------------------------------------------------- inputs of the runs

\* Finite integrated loudness values a meter can return.
Lufs == (0 - MaxLufs)..MaxLufs

\* --target_lufs
Targets == {-1, 0}

\* --tolerance: argparse's type=float takes any float, negative ones too.
Tolerances == {-1, 0, 1}

\* --min_gain_db and --max_gain_db: any floats, in either order.
MinGains == {-1, 1}

MaxGains == {-1, 1}

\* --true_peak_limit
TruePeakLimits == {-1}

\* Sample peak of a signal that is not digital silence, in dBFS.
Peaks == {-1, 0}

\* True peak as ffmpeg reports it, None when its output holds none.
TruePeaks == {None, 0}

\* What pyloudnorm returns: a finite value, or -inf when every block is gated out.
PyLufs == {NegInf, -1}

\* The path the run would write (args.output, else default_output_path).
\* A file name is the sequence of its parts, the extension last.
OutPath == <<"targeted_", "in", ".wav">>

\* No meter has run: the input is digital silence, which every tool detects
\* from the decoded samples before it measures.
NotMeasured == [status |-> "not_run", lufs_ff |-> None, true_peak |-> None,
                lufs_py |-> None]

\* A meter raised: status says how.
FailedMeasurements(kinds) ==
    [status: kinds, lufs_ff: {None}, true_peak: {None}, lufs_py: {None}]

\* The result of the metering call of lufs_normalise.measure_lufs: the parsed
\* ffmpeg metrics (and pyloudnorm's value with --compare), a RuntimeError
\* (ffmpeg missing or failing, no integrated value parsed, pyloudnorm missing),
\* or any other exception.
NormaliseMeasurements(a) ==
    [status: {"ok"}, lufs_ff: Lufs, true_peak: TruePeaks,
     lufs_py: IF a.compare THEN PyLufs ELSE {None}]
    \cup FailedMeasurements({"runtime_error", "other_error"})

NormaliseArgs ==
    [target_lufs: Targets, tolerance: Tolerances,
     min_gain_db: MinGains, max_gain_db: MaxGains,
     true_peak_limit: TruePeakLimits,
     allow_clip: BOOLEAN, force: BOOLEAN, dry_run: BOOLEAN,
     overwrite: BOOLEAN, compare: BOOLEAN]

NormaliseEnvs(a) ==
    {[peak_dbfs |-> NegInf, meas |-> NotMeasured]}
    \cup [peak_dbfs: Peaks, meas: NormaliseMeasurements(a)]

\* The result object before a run has filled it.
NoResult == [decision |-> "none"]

\* ------------------------------------------------------- lufs_normalise

\* lufs_normalise.default_output_path / args.output
NormaliseOutPath == OutPath

\* A measure_lufs that takes pyloudnorm's value as the reference when comparing.
measure_lufs_python_ref(m, compare) ==
    IF compare
    THEN [integrated_ref |-> m.lufs_py, lufs_py |-> m.lufs_py, lufs_ff |-> m.lufs_ff,
          delta |-> ExtSub(m.lufs_ff, m.lufs_py), true_peak |-> m.true_peak]
    ELSE [integrated_ref |-> m.lufs_ff, lufs_py |-> None, lufs_ff |-> m.lufs_ff,
          delta |-> None, true_peak |-> m.true_peak]

\* lufs_normalise.measure_lufs: (integrated_ref, lufs_py, lufs_ff, delta, ff_metrics)
measure_lufs(m, compare) ==
    IF compare
    THEN [integrated_ref |-> m.lufs_ff, lufs_py |-> m.lufs_py, lufs_ff |-> m.lufs_ff,
          delta |-> ExtSub(m.lufs_ff, m.lufs_py), true_peak |-> m.true_peak]
    ELSE [integrated_ref |-> m.lufs_ff, lufs_py |-> None, lufs_ff |-> m.lufs_ff,
          delta |-> None, true_peak |-> m.true_peak]

\* A compliance test that drops the absolute value.
within_tolerance_no_abs(delta_lu, tol) == delta_lu <= tol

\* within = abs(delta_lu) <= tol
within_tolerance(delta_lu, tol) == ExtAbs(delta_lu) <= tol

\* A verdict that tests the sign the wrong way round.
target_status_flipped(within, delta_lu) ==
    IF within THEN "Within tolerance"
    ELSE IF delta_lu < 0 THEN "Too loud" ELSE "Too quiet"

\* status = "Within tolerance" if within else "Too loud" if delta_lu > 0 else "Too quiet"
target_status(within, delta_lu) ==
    IF within THEN "Within tolerance"
    ELSE IF delta_lu > 0 THEN "Too loud" ELSE "Too quiet"

\* A compliance skip that ignores --force.
skip_compliant_unforced(within, force) == within

\* "if within and not args.force": compliant and not forced, nothing is written.
skip_compliant(within, force) == within /\ ~force

\* A clip guard that also refuses a predicted peak of exactly 0 dBFS.
clip_guard_inclusive(pred_peak_dbfs, allow_clip) == pred_peak_dbfs >= 0 /\ ~allow_clip

\* Safety: pred_peak_dbfs > 0.0 and not args.allow_clip
clip_guard(pred_peak_dbfs, allow_clip) == pred_peak_dbfs > 0 /\ ~allow_clip

\* A dry-run test that never stops the run.
is_dry_run_ignored(dry_run) == FALSE

\* "if args.dry_run": report the plan and return before anything is written.
is_dry_run(dry_run) == dry_run

\* An overwrite guard that refuses also when --overwrite is given.
overwrite_blocked_always(exists, overwrite) == exists

\* "if out_path and os.path.exists(out_path) and not args.overwrite"
overwrite_blocked(exists, overwrite) == exists /\ ~overwrite

\* A true-peak warning that also fires when the prediction equals the limit.
true_peak_exceeded_inclusive(has_tp, pred_tp, limit) == has_tp /\ pred_tp >= limit

\* "if tp_in is not None: ... if pred_tp > float(args.true_peak_limit)"
true_peak_exceeded(has_tp, pred_tp, limit) == has_tp /\ pred_tp > limit

\* A peak prediction that takes the true peak, when one was measured, in
\* place of the sample peak.
predicted_peak_or_true_peak(peak_dbfs, tp_in, gain_db) ==
    IF tp_in # None THEN ExtAdd(tp_in, gain_db) ELSE ExtAdd(peak_dbfs, gain_db)

\* pred_peak_dbfs = float(peak_dbfs + gain_db): the sample peak after the
\* gain; tp_in, in scope at this point, is not read.
predicted_sample_peak(peak_dbfs, tp_in, gain_db) == ExtAdd(peak_dbfs, gain_db)

\* The NormaliseResult of the silence branch of lufs_normalise.main.
NormaliseSilence(a) ==
    [decision |-> "skip_silence", rc |-> 0,
     integrated_lufs |-> NegInf, peak_dbfs |-> NegInf, true_peak_dbtp |-> None,
     integrated_lufs_python |-> None, integrated_lufs_ffmpeg |-> None,
     delta_ffmpeg_minus_python |-> None,
     target_lufs |-> a.target_lufs, tolerance_lu |-> a.tolerance,
     delta_lu |-> None, within |-> FALSE, status |-> "Silence",
     suggested_gain_db |-> None, applied_gain_db |-> None,
     predicted_peak_dbfs |-> None, predicted_true_peak_dbtp |-> None,
     true_peak_warn |-> FALSE,
     wrote_path |-> NormaliseOutPath, did_write |-> FALSE,
     note |-> "Silence detected; no output written."]

\* lufs_normalise.main from the measurement on: the NormaliseResult, the
\* true-peak warning, the exit code and the return statement taken.
\* exists is os.path.exists(out_path), write_ok whether sf.write succeeds.
NormaliseDecide(a, e, exists, write_ok) ==
    LET m       == measure_lufs(e.meas, a.compare)
        target  == a.target_lufs
        tol     == a.tolerance
        delta_lu == ExtSub(m.integrated_ref, target)
        within  == within_tolerance(delta_lu, tol)
        base    == [decision |-> "none", rc |-> 0,
                    integrated_lufs |-> m.integrated_ref, peak_dbfs |-> e.peak_dbfs,
                    true_peak_dbtp |-> m.true_peak,
                    integrated_lufs_python |-> m.lufs_py,
                    integrated_lufs_ffmpeg |-> m.lufs_ff,
                    delta_ffmpeg_minus_python |-> m.delta,
                    target_lufs |-> target, tolerance_lu |-> tol,
                    delta_lu |-> delta_lu, within |-> within,
                    status |-> target_status(within, delta_lu),
                    suggested_gain_db |-> ExtNeg(delta_lu), applied_gain_db |-> None,
                    predicted_peak_dbfs |-> None, predicted_true_peak_dbtp |-> None,
                    true_peak_warn |-> FALSE,
                    wrote_path |-> NormaliseOutPath, did_write |-> FALSE,
                    note |-> "None"]
        gain_db == normalise_compute_gain_db(m.integrated_ref, target,
                                             a.min_gain_db, a.max_gain_db)
        pred_peak_dbfs == predicted_sample_peak(e.peak_dbfs, m.true_peak, gain_db)
        pred_tp == IF m.true_peak # None THEN ExtAdd(m.true_peak, gain_db) ELSE None
        planned == [base EXCEPT !.applied_gain_db = gain_db,
                                !.predicted_peak_dbfs = pred_peak_dbfs,
                                !.predicted_true_peak_dbtp = pred_tp,
                                !.true_peak_warn =
                                    true_peak_exceeded(m.true_peak # None, pred_tp,
                                                       a.true_peak_limit)]
    IN  IF skip_compliant(within, a.force)
        THEN [base EXCEPT !.decision = "skip_within",
                          !.note = "Already within tolerance; no output written."]
        ELSE IF clip_guard(pred_peak_dbfs, a.allow_clip)
        THEN [planned EXCEPT !.decision = "abort_clip", !.rc = 1,
                             !.note = "Aborted: predicted sample peak exceeds 0 dBFS."]
        ELSE IF is_dry_run(a.dry_run)
        THEN [planned EXCEPT !.decision = "dry_run"]
        ELSE IF overwrite_blocked(exists, a.overwrite)
        THEN [planned EXCEPT !.decision = "skip_exists",
                             !.note = "Refusing to overwrite existing output."]
        ELSE IF write_ok
        THEN [planned EXCEPT !.decision = "write", !.did_write = TRUE]
        ELSE [planned EXCEPT !.decision = "write", !.rc = 1,
                             !.note = "Error writing output file"]

\* lufs_normalise.print_report, the lines that depend on the outcome: the
\* line on the output file and the note.  res.wrote_path is a path in every
\* NormaliseResult that main builds.
print_report(r, a) ==
    [file_line |-> IF r.wrote_path = <<>> THEN "none"
                   ELSE IF a.dry_run THEN "Would write" ELSE "Wrote file",
     path |-> r.wrote_path,
     note |-> r.note]

\* lufs_normalise.main: one run of the writer CLI on an existing input file,
\* without --json: every return of main that has a NormaliseResult prints the
\* human report first.
\* rc is the value main returns; an exception that main does not catch leaves
\* main without a return value (rc = None, decision "crash").
NormaliseMain ==
    /\ tool = "lufs_normalise"
    /\ pc = "start"
    /\ \E write_ok \in BOOLEAN :
         LET exists == NormaliseOutPath \in files
             r == IF env.peak_dbfs = NegInf
                  THEN NormaliseSilence(args)
                  ELSE IF env.meas.status = "runtime_error"
                  THEN [decision |-> "measure_error", rc |-> 1, did_write |-> FALSE]
                  ELSE IF env.meas.status = "other_error"
                  THEN [decision |-> "crash", rc |-> None, did_write |-> FALSE]
                  ELSE NormaliseDecide(args, env, exists, write_ok)
         IN  /\ res' = IF r.decision \in {"measure_error", "crash"} THEN r
                       ELSE [report |-> print_report(r, args)] @@ r
             /\ written' = IF r.did_write THEN {NormaliseOutPath} ELSE {}
             /\ files' = IF r.did_write THEN files \cup {NormaliseOutPath} ELSE files
    /\ pc' = "done"
    /\ UNCHANGED <<tool, args, env, pre_files>>

\* --------------------------------------------------------- lufs_analyse

\* What the meters that run return for one file (both with --compare, else the
\* one of --engine), or an exception from either (ffmpeg missing or failing,
\* no integrated value parsed, pyloudnorm missing).
AnalyseMeasurements(a) ==
    (IF a.compare
     THEN [status: {"ok"}, lufs_ff: Lufs, true_peak: TruePeaks, lufs_py: PyLufs]
     ELSE IF a.engine = "python"
     THEN [status: {"ok"}, lufs_ff: {None}, true_peak: {None},
           lufs_py: Lufs \cup {NegInf}]
     ELSE [status: {"ok"}, lufs_ff: Lufs, true_peak: TruePeaks, lufs_py: {None}])
    \cup FailedMeasurements({"error"})

AnalyseArgs ==
    [engine: {"python", "ffmpeg"}, compare: BOOLEAN,
     target_lufs: Targets \cup {None}, tolerance: Tolerances,
     min_gain_db: MinGains, max_gain_db: MaxGains,
     true_peak_limit: TruePeakLimits,
     apply: BOOLEAN, force_apply: BOOLEAN, allow_clip: BOOLEAN, dry_run: BOOLEAN]

AnalyseEnvs(a) ==
    {[peak_dbfs |-> NegInf, meas |-> NotMeasured]}
    \cup [peak_dbfs: Peaks, meas: AnalyseMeasurements(a)]

\* lufs_analyse.default_output_path_for_apply / args.output
AnalyseOutPath == OutPath

\* lufs_analyse.analyse_file: the AnalysisResult after the measurement.
analyse_file(a, e) ==
    LET m == e.meas
        blank == [decision |-> "none", rc |-> 0, did_write |-> FALSE,
                  peak_dbfs |-> e.peak_dbfs, integrated_lufs |-> None,
                  true_peak_dbtp |-> None,
                  integrated_lufs_python |-> None, integrated_lufs_ffmpeg |-> None,
                  delta_ffmpeg_minus_python |-> None,
                  target_lufs |-> None, tolerance_lu |-> None,
                  target_delta_lu |-> None, within |-> FALSE,
                  target_status |-> "None", suggested_gain_db |-> None,
                  apply_requested |-> FALSE, apply_skipped |-> FALSE,
                  apply_gain_db |-> None, predicted_peak_dbfs |-> None,
                  predicted_true_peak_dbtp |-> None,
                  predicted_true_peak_warn |-> FALSE,
                  dry_run |-> FALSE, wrote_path |-> "None", apply_note |-> "None"]
    IN  IF a.compare
        THEN [blank EXCEPT !.integrated_lufs = m.lufs_ff,
                           !.integrated_lufs_python = m.lufs_py,
                           !.integrated_lufs_ffmpeg = m.lufs_ff,
                           !.delta_ffmpeg_minus_python = ExtSub(m.lufs_ff, m.lufs_py),
                           !.true_peak_dbtp = m.true_peak]
        ELSE IF a.engine = "python"
        THEN [blank EXCEPT !.integrated_lufs = m.lufs_py]
        ELSE [blank EXCEPT !.integrated_lufs = m.lufs_ff,
                           !.true_peak_dbtp = m.true_peak]

\* lufs_analyse.apply_target_gain_if_requested, called with a target set:
\* the AnalysisResult it leaves and its return code.
\* write_ok is whether sf.write succeeds.
apply_target_gain_if_requested(a, result, write_ok) ==
    LET target_lufs == a.target_lufs
        tol      == a.tolerance
        delta_lu == ExtSub(result.integrated_lufs, target_lufs)
        within   == within_tolerance(delta_lu, tol)
        reported == [result EXCEPT !.target_lufs = target_lufs,
                                   !.tolerance_lu = tol,
                                   !.target_delta_lu = delta_lu,
                                   !.within = within,
                                   !.suggested_gain_db = ExtNeg(delta_lu),
                                   !.target_status = target_status(within, delta_lu)]
        gain_db  == compute_gain_db(result.integrated_lufs, target_lufs,
                                    a.min_gain_db, a.max_gain_db)
        peak_out_dbfs == IF IsFinite(result.peak_dbfs)
                         THEN ExtAdd(result.peak_dbfs, gain_db) ELSE NegInf
        has_tp   == result.true_peak_dbtp # None
        pred_tp  == IF has_tp THEN ExtAdd(result.true_peak_dbtp, gain_db) ELSE None
        planned  == [reported EXCEPT !.apply_requested = TRUE,
                                     !.apply_gain_db = gain_db,
                                     !.predicted_peak_dbfs = peak_out_dbfs,
                                     !.predicted_true_peak_dbtp = pred_tp,
                                     !.predicted_true_peak_warn =
                                         true_peak_exceeded(has_tp, pred_tp,
                                                            a.true_peak_limit)]
    IN  IF ~a.apply
        THEN [reported EXCEPT !.decision = "report_only"]
        ELSE IF skip_compliant(within, a.force_apply)
        THEN [reported EXCEPT !.decision = "skip_within",
                              !.apply_requested = TRUE, !.apply_skipped = TRUE,
                              !.dry_run = a.dry_run,
                              !.apply_note = "Skipped (already within tolerance)."]
        ELSE IF clip_guard(peak_out_dbfs, a.allow_clip)
        THEN [planned EXCEPT !.decision = "abort_clip", !.rc = 1,
                             !.apply_note = "Error: Predicted sample peak exceeds 0 dBFS."]
        ELSE IF is_dry_run(a.dry_run)
        THEN [planned EXCEPT !.decision = "dry_run", !.dry_run = TRUE,
                             !.wrote_path = AnalyseOutPath]
        ELSE IF write_ok
        THEN [planned EXCEPT !.decision = "write", !.did_write = TRUE,
                             !.wrote_path = AnalyseOutPath]
        ELSE [planned EXCEPT !.decision = "write", !.rc = 1,
                             !.apply_note = "Error writing output file"]

\* lufs_analyse.main: one run of the analysis CLI on an existing, non-empty file.
AnalyseMain ==
    /\ tool = "lufs_analyse"
    /\ pc = "start"
    /\ \E write_ok \in BOOLEAN :
         LET r == IF env.peak_dbfs = NegInf
                  THEN [decision |-> "skip_silence", rc |-> 0, did_write |-> FALSE,
                        integrated_lufs |-> NegInf, peak_dbfs |-> NegInf,
                        suggested_gain_db |-> None, apply_gain_db |-> None]
                  ELSE IF env.meas.status = "error"
                  THEN [decision |-> "crash", rc |-> None, did_write |-> FALSE]
                  ELSE IF args.target_lufs # None
                  THEN apply_target_gain_if_requested(args, analyse_file(args, env),
                                                      write_ok)
                  ELSE [analyse_file(args, env) EXCEPT !.decision = "no_target"]
         IN  /\ res' = r
             /\ written' = IF r.did_write THEN {AnalyseOutPath} ELSE {}
             /\ files' = IF r.did_write THEN files \cup {AnalyseOutPath} ELSE files
    /\ pc' = "done"
    /\ UNCHANGED <<tool, args, env, pre_files>>

\* ------------------------------------------------------------- bb_audio

\* bb_audio.analyse_loudness: output_path, "targeted_<basename>" by default.
BBOutPath == OutPath

\* bb_audio.analyse_loudness after the silence check: the result dict (a key
\* that is not set is None) and whether sf.write was called and succeeded.
analyse_loudness(a, e, write_ok) ==
    LET m        == e.meas
        use_py   == a.engine = "python" \/ a.compare
        use_ff   == a.engine = "ffmpeg" \/ a.compare
        lufs_py  == IF use_py THEN m.lufs_py ELSE None
        lufs_ff  == IF use_ff THEN m.lufs_ff ELSE None
        tp_ff    == IF use_ff THEN m.true_peak ELSE None
        ref_engine == IF a.compare \/ a.engine = "ffmpeg" THEN "ffmpeg" ELSE "python"
        ref_lufs == IF ref_engine = "ffmpeg" THEN lufs_ff ELSE lufs_py
        measured == [decision |-> "none", did_write |-> FALSE,
                     peak_dbfs |-> e.peak_dbfs, lufs_i |-> ref_lufs,
                     lufs_i_python |-> lufs_py, lufs_i_ffmpeg |-> lufs_ff,
                     ref_engine |-> ref_engine,
                     delta_ffmpeg_minus_python |->
                         IF a.compare THEN ExtSub(lufs_ff, lufs_py) ELSE None,
                     true_peak |-> IF ref_engine = "ffmpeg" THEN tp_ff ELSE None,
                     target_lufs |-> None, tolerance |-> None, delta_lu |-> None,
                     within_tolerance |-> "None", suggested_gain_db |-> None,
                     pred_peak_dbfs |-> None, pred_true_peak_dbtp |-> None,
                     apply_action |-> "None", output_path |-> "None",
                     apply_gain_db |-> None, dry_run |-> FALSE]
        delta    == ExtSub(ref_lufs, a.target_lufs)
        within   == within_tolerance(delta, a.tolerance)
        gain_db  == bb_compute_gain_db(ref_lufs, a.target_lufs,
                                       a.min_gain_db, a.max_gain_db)
        pred_peak_dbfs == ExtAdd(e.peak_dbfs, gain_db)
        targeted == [measured EXCEPT
                        !.target_lufs = a.target_lufs, !.tolerance = a.tolerance,
                        !.delta_lu = delta,
                        !.within_tolerance = IF within THEN "True" ELSE "False",
                        !.suggested_gain_db = gain_db,
                        !.pred_peak_dbfs = pred_peak_dbfs,
                        !.pred_true_peak_dbtp =
                            IF tp_ff # None THEN ExtAdd(tp_ff, gain_db) ELSE None]
        planned  == [targeted EXCEPT !.output_path = BBOutPath,
                                     !.apply_gain_db = gain_db,
                                     !.dry_run = a.dry_run]
        no_target == [decision |-> "no_target",
                      target_lufs |-> a.target_lufs, tolerance |-> a.tolerance,
                      within_tolerance |-> "None", suggested_gain_db |-> None,
                      apply_action |-> "None", output_path |-> "None"]
    IN  IF a.target_lufs # None /\ IsFinite(ref_lufs)
        THEN IF ~a.apply
             THEN no_target @@ targeted
             ELSE IF skip_compliant(within, a.force_apply)
             THEN [targeted EXCEPT !.decision = "skip_within",
                                   !.apply_action = "skip_compliant",
                                   !.dry_run = a.dry_run]
             ELSE IF clip_guard(pred_peak_dbfs, a.allow_clip)
             THEN [targeted EXCEPT !.decision = "abort_clip",
                                   !.apply_action = "aborted_clip",
                                   !.dry_run = a.dry_run]
             ELSE IF is_dry_run(a.dry_run)
             THEN [planned EXCEPT !.decision = "dry_run", !.apply_action = "dry_run"]
             ELSE IF write_ok
             THEN [planned EXCEPT !.decision = "write", !.apply_action = "wrote",
                                  !.did_write = TRUE]
             ELSE [decision |-> "crash", did_write |-> FALSE]
        ELSE no_target @@ measured

\* bb_audio.analyse_loudness: one call of the backend on a readable file.
BBAnalyseLoudness ==
    /\ tool = "bb_audio"
    /\ pc = "start"
    /\ \E write_ok \in BOOLEAN :
         LET r == IF env.peak_dbfs = NegInf
                  THEN [decision |-> "skip_silence", did_write |-> FALSE,
                        peak_dbfs |-> NegInf, lufs_i |-> NegInf,
                        true_peak |-> None,
                        target_lufs |-> args.target_lufs, tolerance |-> args.tolerance,
                        within_tolerance |-> "None", suggested_gain_db |-> None,
                        apply_action |-> "silence", output_path |-> "None",
                        apply_gain_db |-> None]
                  ELSE IF env.meas.status = "error"
                  THEN [decision |-> "crash", did_write |-> FALSE]
                  ELSE analyse_loudness(args, env, write_ok)
         IN  /\ res' = r
             /\ written' = IF r.did_write THEN {BBOutPath} ELSE {}
             /\ files' = IF r.did_write THEN files \cup {BBOutPath} ELSE files
    /\ pc' = "done"
    /\ UNCHANGED <<tool, args, env, pre_files>>

\* ------------------------------------------------------ batch_normalise

\* Names of the files the scan can return: a fresh input, an output of an
\* earlier run, an input with an upper-case extension.
InputNames ==
    {<<"a", ".wav">>, <<"normalized_", "a", ".wav">>, <<"a", ".WAV">>}

\* --format, after strip().lower() and the check against allowed_formats.
OutputFormats == {"", "wav", "flac"}

BatchArgs == [dry_run: BOOLEAN, overwrite: BOOLEAN, output_format: OutputFormats]

\* One file of the scan, and whether load_audio_mono and peak_normalise succeed.
BatchEnvs == [path: InputNames, load_ok: BOOLEAN]

\* str.lower() on an extension.
Lower(ext) == IF ext = ".WAV" THEN ".wav" ELSE ext

\* filename.startswith("normalized_")
StartsWithNormalized(filename) == Head(filename) = "normalized_"

\* os.path.splitext(filename): (base, ext)
SplitExt(filename) ==
    [base |-> SubSeq(filename, 1, Len(filename) - 1), ext |-> filename[Len(filename)]]

\* process_file: output_name = f"normalized_{base}{new_ext}"
BatchOutputName(filename, output_format) ==
    LET sp      == SplitExt(filename)
        ext     == Lower(sp.ext)
        new_ext == IF output_format # "" THEN "." \o output_format ELSE ext
    IN  <<"normalized_">> \o sp.base \o <<new_ext>>

\* A should_write_file that does not look at the disk.
should_write_file_always_new(exists, overwrite, dry_run) ==
    [should_write |-> TRUE, reason |-> "new"]

\* A should_write_file that tests dry_run before overwrite.
should_write_file_dry_first(exists, overwrite, dry_run) ==
    IF ~exists THEN [should_write |-> TRUE, reason |-> "new"]
    ELSE IF dry_run THEN [should_write |-> FALSE, reason |-> "dry_run_skip"]
    ELSE IF overwrite THEN [should_write |-> TRUE, reason |-> "overwrite"]
    ELSE [should_write |-> FALSE, reason |-> "exists"]

\* bb_audio.should_write_file: (should_write, reason)
should_write_file(exists, overwrite, dry_run) ==
    IF ~exists THEN [should_write |-> TRUE, reason |-> "new"]
    ELSE IF overwrite THEN [should_write |-> TRUE, reason |-> "overwrite"]
    ELSE IF dry_run THEN [should_write |-> FALSE, reason |-> "dry_run_skip"]
    ELSE [should_write |-> FALSE, reason |-> "exists"]

\* batch_normalise.process_file: the status it returns, and whether save_audio
\* wrote the output.  save_ok is whether save_audio succeeds.
process_file(filename, load_ok, exists, dry_run, overwrite, output_format, save_ok) ==
    LET output_path == BatchOutputName(filename, output_format)
        sw == should_write_file(exists, overwrite, dry_run)
        out(result, wrote) == [decision |-> result, did_write |-> wrote,
                               output_path |-> output_path,
                               should_write |-> sw.should_write, reason |-> sw.reason]
    IN  IF StartsWithNormalized(filename) THEN out("skipped", FALSE)
        ELSE IF ~load_ok THEN out("skipped", FALSE)
        ELSE IF ~sw.should_write
        THEN IF sw.reason = "dry_run_skip" THEN out("dry_run_skip", FALSE)
             ELSE out("skipped", FALSE)
        ELSE IF is_dry_run(dry_run) THEN out("dry_run_plan", FALSE)
        ELSE IF ~save_ok THEN out("skipped", FALSE)
        ELSE out("written", TRUE)

\* One call of process_file from the batch loop.
ProcessFile ==
    /\ tool = "batch_normalise"
    /\ pc = "start"
    /\ \E save_ok \in BOOLEAN :
         LET output_path == BatchOutputName(env.path, args.output_format)
             r == process_file(env.path, env.load_ok, output_path \in files,
                               args.dry_run, args.overwrite, args.output_format,
                               save_ok)
         IN  /\ res' = r
             /\ written' = IF r.did_write THEN {output_path} ELSE {}
             /\ files' = IF r.did_write THEN files \cup {output_path} ELSE files
    /\ pc' = "done"
    /\ UNCHANGED <<tool, args, env, pre_files>>

\* ------------------------------------------------------- specification

InitNormalise ==
    /\ tool = "lufs_normalise"
    /\ args \in NormaliseArgs
    /\ env \in NormaliseEnvs(args)

InitAnalyse ==
    /\ tool \in {"lufs_analyse", "bb_audio"}
    /\ args \in AnalyseArgs
    /\ env \in AnalyseEnvs(args)

InitBatch ==
    /\ tool = "batch_normalise"
    /\ args \in BatchArgs
    /\ env \in BatchEnvs
    /\ files \in SUBSET {BatchOutputName(env.path, args.output_format)}

Init ==
    /\ pc = "start"
    /\ \/ InitNormalise /\ files \in SUBSET {OutPath}
       \/ InitAnalyse /\ files \in SUBSET {OutPath}
       \/ InitBatch
    /\ pre_files = files
    /\ written = {}
    /\ res = NoResult

\* The tool is run again with the same command line on the files as they are now.
Rerun ==
    /\ pc = "done"
    /\ pc' = "start"
    /\ pre_files' = files
    /\ written' = {}
    /\ res' = NoResult
    /\ UNCHANGED <<tool, args, env, files>>

Next ==
    \/ NormaliseMain
    \/ AnalyseMain
    \/ BBAnalyseLoudness
    \/ ProcessFile
    \/ Rerun

Spec == Init /\ [][Next]_vars

\* ------------------------------------------------ the clamps on their own

\* Bound of the finite values and bounds handed to a clamp: -MaxClamp..MaxClamp.
MaxClamp == 2

ClampBounds == (0 - MaxClamp)..MaxClamp

ClampArgs == [x: ClampBounds \cup {NegInf, PosInf}, lo: ClampBounds, hi: ClampBounds]

InitClamp ==
    /\ tool \in {"lufs_analyse.clamp", "lufs_normalise.clamp", "bb_audio._clamp"}
    /\ pc = "start"
    /\ args \in ClampArgs
    /\ env = NotMeasured
    /\ files = {}
    /\ pre_files = {}
    /\ written = {}
    /\ res = NoResult

\* lufs_analyse.clamp applied to x, and again to its own result.
ClampAnalyse ==
    /\ tool = "lufs_analyse.clamp"
    /\ pc = "start"
    /\ LET once == clamp(args.x, args.lo, args.hi)
       IN  res' = [decision |-> "clamped", once |-> once,
                   twice |-> clamp(once, args.lo, args.hi)]
    /\ pc' = "done"
    /\ UNCHANGED <<tool, args, env, files, pre_files, written>>

\* lufs_normalise.clamp applied to x, and again to its own result.
ClampNormalise ==
    /\ tool = "lufs_normalise.clamp"
    /\ pc = "start"
    /\ LET once == normalise_clamp(args.x, args.lo, args.hi)
       IN  res' = [decision |-> "clamped", once |-> once,
                   twice |-> normalise_clamp(once, args.lo, args.hi)]
    /\ pc' = "done"
    /\ UNCHANGED <<tool, args, env, files, pre_files, written>>

\* bb_audio._clamp applied to x, and again to its own result.
ClampBB ==
    /\ tool = "bb_audio._clamp"
    /\ pc = "start"
    /\ LET once == _clamp(args.x, args.lo, args.hi)
       IN  res' = [decision |-> "clamped", once |-> once,
                   twice |-> _clamp(once, args.lo, args.hi)]
    /\ pc' = "done"
    /\ UNCHANGED <<tool, args, env, files, pre_files, written>>

NextClamp ==
    \/ ClampAnalyse
    \/ ClampNormalise
    \/ ClampBB

SpecClamp == InitClamp /\ [][NextClamp]_vars

\* ------------------------------------------------------------ the claims

\* A run of one of the three loudness tools has returned a result object
\* (it did not end in an exception of the measurement or of the write).
Returned(t) ==
    tool = t /\ pc = "done" /\ res.decision \notin {"crash", "measure_error"}

\* The integrated loudness, the gain applied and the predicted sample peak in
\* the result object of the tool that ran.
MeasuredLufs == IF tool = "bb_audio" THEN res.lufs_i ELSE res.integrated_lufs

AppliedGain ==
    IF tool = "lufs_normalise" THEN res.applied_gain_db ELSE res.apply_gain_db

PredictedPeak ==
    IF tool = "bb_audio" THEN res.pred_peak_dbfs ELSE res.predicted_peak_dbfs

\* |measured - target| <= tolerance, written out on the inputs of the run.
InputWithin(measured, target, tol) ==
    /\ IsFinite(measured)
    /\ measured - target <= tol
    /\ target - measured <= tol

\* The predicted sample peak of lufs_normalise on the inputs of the run
\* exceeds 0 dBFS.
NormaliseClipPredicted ==
    /\ env.peak_dbfs # NegInf
    /\ env.peak_dbfs + normalise_compute_gain_db(env.meas.lufs_ff, args.target_lufs,
                                                 args.min_gain_db, args.max_gain_db) > 0

\* The priority list of the apply decision.
PriorityOutcome(silent, within, clipping, exists, force, allow_clip, overwrite, dry_run) ==
    IF silent THEN "skip_silence"
    ELSE IF within /\ ~force THEN "skip_within"
    ELSE IF clipping /\ ~allow_clip THEN "abort_clip"
    ELSE IF dry_run THEN "dry_run"
    ELSE IF exists /\ ~overwrite THEN "skip_exists"
    ELSE "write"

\* C1: given a successful measurement (or a silent input), lufs_normalise.main
\* ends at the first matching check of: silent -> skip; within tolerance and
\* not force -> skip; predicted peak > 0 dBFS and not allow_clip -> abort;
\* dry_run -> plan only; output exists and not overwrite -> skip; else write.
\* Only the write outcome writes, and only the output path.
C1_DecisionFollowsPriorityList ==
    Returned("lufs_normalise") =>
        /\ res.decision =
             PriorityOutcome(env.peak_dbfs = NegInf,
                             InputWithin(env.meas.lufs_ff, args.target_lufs,
                                         args.tolerance),
                             NormaliseClipPredicted,
                             OutPath \in pre_files,
                             args.force, args.allow_clip, args.overwrite, args.dry_run)
        /\ res.decision # "write" => written = {} /\ files = pre_files
        /\ written \subseteq {OutPath}

\* A forced, compliant dry run whose output exists and may not be overwritten:
\* the dry-run check is met before the overwrite check.
C1_Witness ==
    /\ Returned("lufs_normalise")
    /\ res.decision = "dry_run"
    /\ res.within /\ args.force
    /\ OutPath \in pre_files /\ ~args.overwrite

\* C2: whenever the measured integrated loudness is -inf, the run ends in a
\* skip: no gain is applied and no file is written, whatever the flags, in
\* lufs_analyse, lufs_normalise and bb_audio.analyse_loudness, also when the
\* sample peak is not zero.
C2_NegInfLoudnessAlwaysSkips ==
    \A t \in {"lufs_normalise", "lufs_analyse", "bb_audio"} :
        (Returned(t) /\ MeasuredLufs = NegInf) =>
            /\ res.decision \in {"skip_silence", "no_target", "report_only"}
            /\ AppliedGain = None
            /\ written = {}

\* C3: when a gain is planned, the predicted sample peak is the input peak
\* plus the applied gain; if it is > 0 dBFS and allow_clip is not set the run
\* aborts and writes nothing, also under dry_run or force; a predicted peak of
\* 0 dBFS or less, or allow_clip, never aborts.
C3_ClipGuardAborts ==
    \A t \in {"lufs_normalise", "lufs_analyse"} :
        (Returned(t) /\ res.decision # "skip_silence") =>
            /\ AppliedGain # None =>
                 /\ PredictedPeak = env.peak_dbfs + AppliedGain
                 /\ (PredictedPeak > 0 /\ ~args.allow_clip) =>
                        res.decision = "abort_clip" /\ written = {}
            /\ res.decision = "abort_clip" =>
                 /\ AppliedGain # None
                 /\ PredictedPeak > 0
                 /\ ~args.allow_clip

\* A forced dry run of lufs_normalise that predicts a clip and aborts.
C3_Witness ==
    /\ Returned("lufs_normalise")
    /\ res.decision = "abort_clip"
    /\ args.dry_run /\ args.force
    /\ res.predicted_peak_dbfs > 0

\* C4: a run with dry_run set writes no file: lufs_normalise.main,
\* lufs_analyse.main, bb_audio.analyse_loudness and
\* batch_normalise.process_file leave the files as they were.
C4_DryRunNeverWrites ==
    (pc = "done" /\ args.dry_run) =>
        /\ written = {}
        /\ files = pre_files
        /\ ~res.did_write

\* A dry run of process_file for which should_write_file answered
\* (True, "overwrite").
C4_Witness ==
    /\ tool = "batch_normalise" /\ pc = "done"
    /\ args.dry_run
    /\ res.decision = "dry_run_plan"
    /\ res.reason = "overwrite"

\* C5 as stated: every apply decision of lufs_normalise with dry_run = false,
\* output_exists = false and no clip risk is Write.
C5_NoObstacleAlwaysWrites ==
    (/\ Returned("lufs_normalise")
     /\ ~args.dry_run
     /\ OutPath \notin pre_files
     /\ ~(NormaliseClipPredicted /\ ~args.allow_clip)) =>
        res.decision = "write"

\* C5, amended: every apply decision of lufs_normalise for an input that is
\* not silent and not (within tolerance and unforced), with dry_run = false,
\* output_exists = false and no clip risk, is Write.
C5_NoObstacleWritesUnlessSkipped ==
    (/\ Returned("lufs_normalise")
     /\ env.peak_dbfs # NegInf
     /\ ~(InputWithin(env.meas.lufs_ff, args.target_lufs, args.tolerance)
          /\ ~args.force)
     /\ ~args.dry_run
     /\ OutPath \notin pre_files
     /\ ~(NormaliseClipPredicted /\ ~args.allow_clip)) =>
        res.decision = "write"

\* A compliant input written because of --force, with nothing else in the way.
C5_Witness ==
    /\ Returned("lufs_normalise")
    /\ res.decision = "write" /\ res.did_write
    /\ res.within /\ args.force
    /\ ~args.dry_run /\ OutPath \notin pre_files /\ ~args.overwrite

\* C6: a run that is not a dry run, whose output file exists and which was not
\* given the overwrite flag, does not write to that path, in lufs_normalise,
\* lufs_analyse and bb_audio.analyse_loudness (the last two take no overwrite
\* flag at all).
C6_NoOverwriteWithoutFlag ==
    \A t \in {"lufs_normalise", "lufs_analyse", "bb_audio"} :
        (/\ tool = t /\ pc = "done"
         /\ ~args.dry_run
         /\ OutPath \in pre_files
         /\ ~(t = "lufs_normalise" /\ args.overwrite)) =>
            OutPath \notin written

\* A gain was computed by compute_gain_db and stored in the result.
GainPlanned ==
    /\ \E t \in {"lufs_normalise", "lufs_analyse", "bb_audio"} : Returned(t)
    /\ res.decision \notin {"skip_silence", "no_target"}
    /\ AppliedGain # None

\* C7 as stated: the applied gain lies in [min_gain_db, max_gain_db] for every
\* measurement and every pair of bounds the callers accept.
C7_GainWithinBounds ==
    GainPlanned =>
        args.min_gain_db <= AppliedGain /\ AppliedGain <= args.max_gain_db

\* C7, amended: provided min_gain_db <= max_gain_db, the applied gain lies in
\* [min_gain_db, max_gain_db], for a measured loudness of -inf too.
C7_GainWithinOrderedBounds ==
    (GainPlanned /\ args.min_gain_db <= args.max_gain_db) =>
        args.min_gain_db <= AppliedGain /\ AppliedGain <= args.max_gain_db

\* A measured loudness of -inf whose infinite raw gain is clamped to max_gain_db.
C7_Witness ==
    /\ Returned("lufs_analyse")
    /\ res.integrated_lufs = NegInf
    /\ res.decision = "write"
    /\ args.min_gain_db < args.max_gain_db
    /\ res.apply_gain_db = args.max_gain_db

\* C8 as stated: each clamp is idempotent for every g, lo and hi.
C8_ClampIdempotent ==
    pc = "done" => res.twice = res.once

\* C8, amended: each clamp is idempotent for every g and every lo <= hi;
\* bb_audio._clamp is idempotent for every lo and hi.
C8_ClampIdempotentOrdered ==
    (pc = "done" /\ (args.lo <= args.hi \/ tool = "bb_audio._clamp")) =>
        res.twice = res.once

\* lufs_analyse.clamp has moved a value above the range onto hi, lo < hi.
C8_Witness ==
    /\ tool = "lufs_analyse.clamp" /\ pc = "done"
    /\ args.lo < args.hi /\ args.x > args.hi
    /\ res.once = args.hi /\ res.twice = args.hi

\* The run evaluated compliance against a target: the measurement, and the
\* compliance flag it computed.
ComplianceEvaluated ==
    \/ Returned("lufs_normalise") /\ res.decision # "skip_silence"
    \/ Returned("lufs_analyse") /\ res.decision \notin {"skip_silence", "no_target"}
    \/ Returned("bb_audio") /\ res.decision \notin {"skip_silence", "no_target"}

ComputedWithin ==
    IF tool = "bb_audio" THEN res.within_tolerance = "True" ELSE res.within

\* C9: for every tolerance >= 0 the compliance flag is true exactly when
\* |measured - target| <= tolerance, the boundary included, and a measurement
\* mirrored around the target gets the same flag.
C9_WithinToleranceSymmetric ==
    (ComplianceEvaluated /\ args.tolerance >= 0) =>
        /\ ComputedWithin = InputWithin(MeasuredLufs, args.target_lufs, args.tolerance)
        /\ IsFinite(MeasuredLufs) =>
             LET mirrored == args.target_lufs + (args.target_lufs - MeasuredLufs)
             IN  within_tolerance(ExtSub(mirrored, args.target_lufs), args.tolerance)
                   = ComputedWithin

\* A measurement exactly one tolerance below the target counts as compliant.
C9_Witness ==
    /\ Returned("lufs_analyse")
    /\ res.decision = "skip_within"
    /\ args.tolerance > 0
    /\ res.integrated_lufs = args.target_lufs - args.tolerance

\* The run of lufs_normalise or lufs_analyse labelled a finite measurement.
VerdictGiven ==
    /\ \/ Returned("lufs_normalise") /\ res.decision # "skip_silence"
       \/ Returned("lufs_analyse") /\ res.decision \notin {"skip_silence", "no_target"}
    /\ IsFinite(MeasuredLufs)

Verdict == IF tool = "lufs_normalise" THEN res.status ELSE res.target_status

VerdictMatchesDelta ==
    LET delta_lu == MeasuredLufs - args.target_lufs
    IN  /\ Verdict \in {"Within tolerance", "Too loud", "Too quiet"}
        /\ Verdict = "Too loud" <=> delta_lu > args.tolerance
        /\ Verdict = "Too quiet" <=> delta_lu < 0 - args.tolerance

\* C10 as stated: for every tolerance the CLI accepts, the verdict of a finite
\* measurement is too loud exactly when delta_lu > tolerance, too quiet
\* exactly when delta_lu < -tolerance, and compliant otherwise.
C10_VerdictByDelta ==
    VerdictGiven => VerdictMatchesDelta

\* C10, amended: the same for every tolerance >= 0.
C10_VerdictByDeltaNonNegTol ==
    (VerdictGiven /\ args.tolerance >= 0) => VerdictMatchesDelta

\* A measurement more than a positive tolerance below the target: too quiet.
C10_Witness ==
    /\ Returned("lufs_normalise")
    /\ args.tolerance > 0
    /\ res.status = "Too quiet"
    /\ res.delta_lu < 0 - args.tolerance

\* The run reported a target-mode result with a suggested gain.
SuggestedGain == res.suggested_gain_db

TargetModeResult ==
    /\ ComplianceEvaluated
    /\ ~(tool = "bb_audio" /\ ~args.apply)

\* C11: in every target-mode result the reported suggested_gain_db is
\* -(measured - target), not clamped to [min_gain_db, max_gain_db], in
\* lufs_analyse, lufs_normalise and bb_audio.analyse_loudness.
C11_SuggestedGainUnclamped ==
    TargetModeResult =>
        SuggestedGain = ExtNeg(ExtSub(MeasuredLufs, args.target_lufs))

\* The true peak the meter returned for the run, None when none was measured,
\* and the true-peak fields of the result object.
MeasuredTruePeak == env.meas.true_peak

PredictedTruePeak == res.predicted_true_peak_dbtp

TruePeakWarned ==
    IF tool = "lufs_normalise" THEN res.true_peak_warn ELSE res.predicted_true_peak_warn

\* A run of lufs_normalise or lufs_analyse that planned a gain.
PeakPredicted ==
    /\ Returned("lufs_normalise") \/ Returned("lufs_analyse")
    /\ res.decision \in {"abort_clip", "dry_run", "skip_exists", "write"}

\* C12: when a gain is planned, predicted_peak_dbfs = sample peak + applied
\* gain; with a measured true peak, predicted_true_peak_dbtp = true peak +
\* applied gain and the warning is set exactly when that is > true_peak_limit;
\* without one the prediction is absent and the warning is false.
C12_PeakPredictions ==
    PeakPredicted =>
        /\ AppliedGain # None
        /\ PredictedPeak = env.peak_dbfs + AppliedGain
        /\ MeasuredTruePeak # None =>
             /\ PredictedTruePeak = MeasuredTruePeak + AppliedGain
             /\ TruePeakWarned <=> PredictedTruePeak > args.true_peak_limit
        /\ MeasuredTruePeak = None =>
             PredictedTruePeak = None /\ ~TruePeakWarned

\* A written run whose predicted true peak equals the limit: no warning.
C12_Witness ==
    /\ Returned("lufs_normalise")
    /\ res.decision = "write" /\ res.did_write
    /\ res.true_peak_dbtp # None
    /\ res.predicted_true_peak_dbtp = args.true_peak_limit
    /\ ~res.true_peak_warn

\* ------------------------------------- the parsers of the ffmpeg output

\* The token "nan" that ffmpeg prints for a meter value it has not got yet.
NaNTok == 88888

\* A token that none of the number patterns matches (for example "n/a").
BadTok == 77777

\* floor: float = -70.0, the measurement floor of _max_above_floor.
Floor == -70

\* Bound of the number of lines of one ffmpeg output.
MaxLines == 3

\* The token parses to a number.
IsNum(v) == v \notin {None, NaNTok, BadTok}

\* One line of ffmpeg's stderr, by what the patterns can see of it: kind says
\* whether it is the "Summary:" header, a running-meter line (a prefix
\* "[Parsed_ebur128_0 @ ...] t: ..." followed by its tokens), a line of the
\* Summary block holding one "<tag>: <value> <unit>" token and nothing else,
\* or a "True peak:" header followed by its "Peak: <value> dBFS" line.
\* dBTP is the value of a "<value> dBTP" token without a "TP:" in front of it,
\* which only the lines of WithDbtp hold.
Line(kind, m, s, i, lra, tp, peak) ==
    [kind |-> kind, M |-> m, S |-> s, I |-> i, LRA |-> lra, TP |-> tp, Peak |-> peak,
     dBTP |-> None]

\* The line l with a "<value> dBTP" token after what it holds already.
WithDbtp(l, value) == [l EXCEPT !.dBTP = value]

FfmpegLines ==
    { Line("header", None, None, None, None, None, None),
      Line("meter", -20, -25, -16, None, None, None),
      Line("meter", Floor, Floor - 1, None, None, None, None),
      Line("meter", Floor + 1, None, None, None, None, None),
      Line("meter", None, Floor + 1, -14, None, None, None),
      Line("meter", NaNTok, -18, None, None, None, None),
      Line("meter", BadTok, -40, BadTok, None, None, None),
      Line("summary", None, None, -23, None, None, None),
      Line("summary", None, None, BadTok, None, None, None),
      Line("summary", None, None, None, 5, None, None),
      Line("summary", None, None, None, None, -1, None),
      Line("meter", None, None, -16, None, -2, None),
      Line("peak_block", None, None, None, None, None, -3),
      Line("peak_block", None, None, None, None, None, BadTok),
      WithDbtp(Line("peak_block", None, None, None, None, None, -3), -4),
      WithDbtp(Line("peak_block", None, None, None, None, None, None), -5) }

\* The order in which ffmpeg prints: the lines of a Summary block follow its
\* "Summary:" header, and the running meter has ended when the last Summary
\* block is printed.
WellFormed(text) ==
    \A i \in 1..Len(text) :
        LET before == \E h \in 1..(i - 1) : text[h].kind = "header"
            after  == \E h \in (i + 1)..Len(text) : text[h].kind = "header"
        IN  /\ text[i].kind \in {"summary", "peak_block"} => before
            /\ text[i].kind = "meter" => (~before \/ after)

\* The stderr texts of one ffmpeg run: up to MaxLines lines.
FfmpegTexts ==
    { text \in UNION { [1..n -> FfmpegLines] : n \in 0..MaxLines } : WellFormed(text) }

Maximum(S) == CHOOSE x \in S : \A y \in S : y <= x

Minimum(S) == CHOOSE x \in S : \A y \in S : x <= y

\* lufs_analyse._max_above_floor over the matched tokens, in order.
RECURSIVE _max_above_floor(_, _)
_max_above_floor(values, best) ==
    IF values = <<>> THEN best
    ELSE LET v == Head(values)
         IN  IF v = NaNTok THEN _max_above_floor(Tail(values), best)
             ELSE IF v <= Floor THEN _max_above_floor(Tail(values), best)
             ELSE IF best = None \/ v > best THEN _max_above_floor(Tail(values), v)
             ELSE _max_above_floor(Tail(values), best)

\* re.findall(r"<tag>:\s*(-?\d+(?:\.\d+)?|nan)\b", stderr): the matched tokens.
RECURSIVE FindAllMeter(_, _)
FindAllMeter(text, tag) ==
    IF text = <<>> THEN <<>>
    ELSE LET v == Head(text)[tag]
         IN  (IF IsNum(v) \/ v = NaNTok THEN <<v>> ELSE <<>>)
                 \o FindAllMeter(Tail(text), tag)

\* stderr.rfind("Summary:"): the line of the last header, 0 when there is none.
summary_idx(text) ==
    LET hs == { i \in 1..Len(text) : text[i].kind = "header" }
    IN  IF hs = {} THEN 0 ELSE Maximum(hs)

\* summary_value(tag): the first line of parse_text that is "<tag>: <number>
\* <unit>" and nothing else; parse_text is stderr from the last "Summary:" on,
\* all of stderr when there is no header.
summary_value(text, tag) ==
    LET from == summary_idx(text)
        hits == { i \in 1..Len(text) :
                    /\ text[i].kind = "summary" /\ IsNum(text[i][tag])
                    /\ i > from }
    IN  IF hits = {} THEN None ELSE text[Minimum(hits)][tag]

\* A search that returns the first match instead of the last.
LastValue_first(text, tag) ==
    LET hits == { i \in 1..Len(text) : IsNum(text[i][tag]) }
    IN  IF hits = {} THEN None ELSE text[Minimum(hits)][tag]

\* A search for the last value that looks at the running-meter lines only.
LastValue_meter_only(text, tag) ==
    LET hits == { i \in 1..Len(text) : text[i].kind = "meter" /\ IsNum(text[i][tag]) }
    IN  IF hits = {} THEN None ELSE text[Maximum(hits)][tag]

\* re.findall(r"<tag>:\s*(number)\s*<unit>", stderr)[-1], None without a match.
LastValue(text, tag) ==
    LET hits == { i \in 1..Len(text) : IsNum(text[i][tag]) }
    IN  IF hits = {} THEN None ELSE text[Maximum(hits)][tag]

\* re.search(r"True\s+peak:\s*(?:\r?\n)+(?P<block>(?:.*\r?\n){0,25})"): the
\* block starts after the first "True peak:" header and runs over the lines
\* that follow it (25 of them, more than MaxLines): the lines of the block, 0
\* lines when there is no header.
block_lines(text) ==
    LET hs == { i \in 1..Len(text) : text[i].kind = "peak_block" }
    IN  IF hs = {} THEN {} ELSE { i \in 1..Len(text) : i >= Minimum(hs) }

\* m_db: the first "<value> dBTP" token of the block.
block_dbtp(text) ==
    LET hits == { i \in block_lines(text) : IsNum(text[i].dBTP) \/ IsNum(text[i].TP) }
        l    == text[Minimum(hits)]
    IN  IF hits = {} THEN None
        ELSE IF IsNum(l.TP) THEN l.TP ELSE l.dBTP

\* m_peak: the first line "Peak: <value>" of the block, with or without unit.
block_peak(text) ==
    LET hits == { i \in block_lines(text) :
                    text[i].kind = "peak_block" /\ IsNum(text[i].Peak) }
    IN  IF hits = {} THEN None ELSE text[Minimum(hits)].Peak

\* A search of the block that prefers the "Peak:" line to the dBTP token.
TruePeakBlock_peak_first(text) ==
    IF block_peak(text) # None THEN block_peak(text) ELSE block_dbtp(text)

\* The strategies on the "True peak:" block: the dBTP token, else the
\* "Peak:" line, else nothing.
TruePeakBlock(text) ==
    IF block_dbtp(text) # None THEN block_dbtp(text) ELSE block_peak(text)

\* lufs_analyse.measure_ebu128_ffmpeg on the stderr of a run of ffmpeg that
\* succeeded: the Ebur128Metrics, or the RuntimeError of the parse.
analyse_measure_ebu128_ffmpeg(text) ==
    LET summary_i  == summary_value(text, "I")
        integrated == IF summary_i # None THEN summary_i ELSE LastValue(text, "I")
        lra        == summary_value(text, "LRA")
        m_max      == _max_above_floor(FindAllMeter(text, "M"), None)
        s_max      == _max_above_floor(FindAllMeter(text, "S"), None)
        summary_tp == summary_value(text, "TP")
        inline_tp  == IF summary_tp # None THEN summary_tp ELSE LastValue(text, "TP")
        tp         == IF inline_tp # None THEN inline_tp ELSE TruePeakBlock(text)
    IN  IF integrated = None
        THEN [status |-> "RuntimeError"]
        ELSE [status |-> "ok", integrated_lufs |-> integrated,
              loudness_range_lu |-> lra, momentary_max_lufs |-> m_max,
              shortterm_max_lufs |-> s_max, true_peak_dbtp |-> tp]

\* _EBUR_LINE_RE.search(line): the line holds an M token and, after it, an S
\* token, each a number or "nan".
_EBUR_LINE_RE(l) ==
    /\ IsNum(l.M) \/ l.M = NaNTok
    /\ IsNum(l.S) \/ l.S = NaNTok

\* The loop of bb_audio.measure_ebu128_ffmpeg over the per-timestamp lines:
\* (m_best, s_best).
RECURSIVE TrackMaxima(_, _, _)
TrackMaxima(text, m_best, s_best) ==
    IF text = <<>> THEN [m_best |-> m_best, s_best |-> s_best]
    ELSE LET l == Head(text)
         IN  IF ~_EBUR_LINE_RE(l) THEN TrackMaxima(Tail(text), m_best, s_best)
             ELSE TrackMaxima(Tail(text),
                      IF IsNum(l.M) /\ (m_best = None \/ l.M > m_best)
                      THEN l.M ELSE m_best,
                      IF IsNum(l.S) /\ (s_best = None \/ l.S > s_best)
                      THEN l.S ELSE s_best)

\* bb_audio.measure_ebu128_ffmpeg on the stderr of ffmpeg: the dict of the
\* metrics, or the RuntimeError of the parse.
bb_measure_ebu128_ffmpeg(text) ==
    LET best   == TrackMaxima(text, None, None)
        lufs_i == LastValue(text, "I")
    IN  IF lufs_i = None
        THEN [status |-> "RuntimeError"]
        ELSE [status |-> "ok", integrated_lufs |-> lufs_i,
              loudness_range_lu |-> LastValue(text, "LRA"),
              momentary_max_lufs |-> best.m_best,
              shortterm_max_lufs |-> best.s_best,
              true_peak_dbtp |-> LastValue(text, "TP")]

\* The parser of the tool that runs.
ParseOutput(t, text) ==
    IF t = "lufs_analyse.measure_ebu128_ffmpeg"
    THEN analyse_measure_ebu128_ffmpeg(text)
    ELSE bb_measure_ebu128_ffmpeg(text)

Tags == {"M", "S", "I", "LRA", "TP"}

\* The text with the token of one metric taken off one line.
WithoutToken(text, i, tag) == [text EXCEPT ![i] = [@ EXCEPT ![tag] = None]]

InitParse ==
    /\ tool \in {"lufs_analyse.measure_ebu128_ffmpeg", "bb_audio.measure_ebu128_ffmpeg"}
    /\ pc = "start"
    /\ args \in [text: FfmpegTexts]
    /\ env = NotMeasured
    /\ files = {}
    /\ pre_files = {}
    /\ written = {}
    /\ res = NoResult

\* lufs_analyse.measure_ebu128_ffmpeg parses the output of one run.
ParseAnalyse ==
    /\ tool = "lufs_analyse.measure_ebu128_ffmpeg"
    /\ pc = "start"
    /\ res' = [decision |-> "parsed", metrics |-> analyse_measure_ebu128_ffmpeg(args.text)]
    /\ pc' = "done"
    /\ UNCHANGED <<tool, args, env, files, pre_files, written>>

\* bb_audio.measure_ebu128_ffmpeg parses the output of one run.
ParseBB ==
    /\ tool = "bb_audio.measure_ebu128_ffmpeg"
    /\ pc = "start"
    /\ res' = [decision |-> "parsed", metrics |-> bb_measure_ebu128_ffmpeg(args.text)]
    /\ pc' = "done"
    /\ UNCHANGED <<tool, args, env, files, pre_files, written>>

\* The same parser is given the output once more, with one token missing.
ParseWithout ==
    /\ pc = "done"
    /\ res.decision = "parsed"
    /\ \E i \in 1..Len(args.text), tag \in Tags :
         /\ args.text[i][tag] # None
         /\ res' = [decision |-> "compared", metrics |-> res.metrics,
                    line |-> i, tag |-> tag,
                    without |-> ParseOutput(tool, WithoutToken(args.text, i, tag))]
    /\ pc' = "compared"
    /\ UNCHANGED <<tool, args, env, files, pre_files, written>>

NextParse ==
    \/ ParseAnalyse
    \/ ParseBB
    \/ ParseWithout

SpecParse == InitParse /\ [][NextParse]_vars

\* ---------------------------------------------- the claims on the parsers

Parsed == pc = "done" /\ res.decision = "parsed"

\* Some line of the output holds an I token that parses to a number.
IntegratedRecoverable == \E i \in 1..Len(args.text) : IsNum(args.text[i].I)

\* C13: parsing fails exactly when no integrated value can be recovered, from
\* the Summary block or from the whole text; missing or malformed LRA, true
\* peak, M or S values never fail the parse, the metric is returned absent.
C13_ParseFailsOnlyWithoutIntegrated ==
    Parsed =>
        /\ res.metrics.status = "RuntimeError" <=> ~IntegratedRecoverable
        /\ res.metrics.status = "ok" =>
             /\ (\A i \in 1..Len(args.text) : ~IsNum(args.text[i].LRA)) =>
                    res.metrics.loudness_range_lu = None
             /\ (\A i \in 1..Len(args.text) :
                    /\ ~IsNum(args.text[i].TP) /\ ~IsNum(args.text[i].Peak)
                    /\ ~IsNum(args.text[i].dBTP)) =>
                    res.metrics.true_peak_dbtp = None
             /\ (\A i \in 1..Len(args.text) : ~IsNum(args.text[i].M)) =>
                    res.metrics.momentary_max_lufs = None
             /\ (\A i \in 1..Len(args.text) : ~IsNum(args.text[i].S)) =>
                    res.metrics.shortterm_max_lufs = None

\* A parse that succeeds on an output with a malformed M token and neither
\* LRA nor true peak: those metrics come back absent.
C13_Witness ==
    /\ Parsed
    /\ res.metrics.status = "ok"
    /\ \E i \in 1..Len(args.text) : args.text[i].M = BadTok
    /\ res.metrics.loudness_range_lu = None
    /\ res.metrics.true_peak_dbtp = None
    /\ res.metrics.momentary_max_lufs = None

\* The largest of the tokens of one tag that are numbers above the floor, None
\* when there is none.
MaxAboveFloor(text, tag) ==
    LET vals == { text[i][tag] : i \in { j \in 1..Len(text) : IsNum(text[j][tag]) } }
        kept == { v \in vals : v > Floor }
    IN  IF kept = {} THEN None ELSE Maximum(kept)

\* C14: the momentary_max (short_term_max) a parser returns is the largest of
\* the M (S) values that are not nan and strictly above -70.0, absent when
\* there is none; a value of -70.0 or below is never the reported maximum,
\* in lufs_analyse.measure_ebu128_ffmpeg and bb_audio.measure_ebu128_ffmpeg.
C14_MaximaAboveFloor ==
    (Parsed /\ res.metrics.status = "ok") =>
        /\ res.metrics.momentary_max_lufs = MaxAboveFloor(args.text, "M")
        /\ res.metrics.shortterm_max_lufs = MaxAboveFloor(args.text, "S")

\* The I value of the last Summary block: the first line after the last
\* "Summary:" header that is an I line with a number; None when the output has
\* no header or the block has no such line.
SummaryIntegrated(text) ==
    LET hs == { i \in 1..Len(text) : text[i].kind = "header" }
        is == { i \in 1..Len(text) :
                  /\ hs # {}
                  /\ \A h \in hs : h < i
                  /\ text[i].kind = "summary"
                  /\ IsNum(text[i].I) }
    IN  IF is = {} THEN None
        ELSE text[CHOOSE i \in is : \A j \in is : i <= j].I

\* The last I value found anywhere in the output.
LastIntegrated(text) ==
    LET is == { i \in 1..Len(text) : IsNum(text[i].I) }
    IN  IF is = {} THEN None
        ELSE text[CHOOSE i \in is : \A j \in is : j <= i].I

\* C15: when the output holds a Summary block with a parseable I line, the
\* integrated loudness returned is that value of the last Summary block,
\* whatever I values the running meter holds; without such a line it is the
\* last I value of the whole output.
C15_SummaryIsAuthoritative ==
    (Parsed /\ res.metrics.status = "ok") =>
        res.metrics.integrated_lufs =
            IF SummaryIntegrated(args.text) # None
            THEN SummaryIntegrated(args.text)
            ELSE LastIntegrated(args.text)

\* The running meter ended at I = -16 and the Summary block says I = -23: the
\* Summary value is returned.
C15_Witness ==
    /\ Parsed
    /\ res.metrics.status = "ok"
    /\ \E i \in 1..Len(args.text) :
         args.text[i].kind = "meter" /\ IsNum(args.text[i].I)
    /\ SummaryIntegrated(args.text) # None
    /\ res.metrics.integrated_lufs = SummaryIntegrated(args.text)
    /\ \E i \in 1..Len(args.text) :
         IsNum(args.text[i].I) /\ args.text[i].I # res.metrics.integrated_lufs

\* The metric a parser returns for a tag.
MetricOf(metrics, tag) ==
    CASE tag = "M"   -> metrics.momentary_max_lufs
      [] tag = "S"   -> metrics.shortterm_max_lufs
      [] tag = "I"   -> metrics.integrated_lufs
      [] tag = "LRA" -> metrics.loudness_range_lu
      [] tag = "TP"  -> metrics.true_peak_dbtp

\* C16: metric extraction is independent per metric: when two outputs differ
\* only in one metric's token being present on a line, and both parse, every
\* other metric gets the same value from both; an M value on a line without
\* an S value still counts for momentary_max, and the other way round.
C16_MetricsIndependent ==
    (/\ pc = "compared"
     /\ res.metrics.status = "ok"
     /\ res.without.status = "ok") =>
        \A tag \in Tags \ {res.tag} :
            MetricOf(res.without, tag) = MetricOf(res.metrics, tag)

\* ------------------------------------------- the windowed loudness maximum

\* Bound of the number of samples of the buffer.
MaxSamples == 3

\* meter.integrated_loudness(chunk) raised an exception.
ErrTok == 66666

\* A test for finiteness that only rejects nan.
np_isfinite_not_nan(v) == v # NaNTok

\* np.isfinite(v)
np_isfinite(v) == v \notin {NegInf, PosInf, NaNTok}

\* int(round(p / 2)): Python rounds a tie to the even neighbour.
round_half_even(p) ==
    LET k == p \div 2
    IN  IF p % 2 = 0 THEN k
        ELSE IF k % 2 = 0 THEN k ELSE k + 1

\* What pyloudnorm does on one window: a finite loudness, -inf, nan or an
\* exception.
WindowOutcomes == {ErrTok, NegInf, NaNTok, -1, 0}

\* A call: the buffer has size samples, loud[start] is what the meter does on
\* the window that starts at sample start; window_sec and step_sec are counted
\* in half seconds.
WindowArgs ==
    UNION { [size: {n}, loud: [0..(n - 1) -> WindowOutcomes],
             sr: {-1, 0, 1, 2}, window_sec: -1..3, step_sec: 0..2] :
            n \in 0..MaxSamples }

\* The loop "for start in range(0, audio.size - win_n + 1, step_n)".
RECURSIVE WindowLoop(_, _, _, _, _)
WindowLoop(a, win_n, step_n, start, best) ==
    IF start >= a.size - win_n + 1 THEN best
    ELSE LET v == a.loud[start]
         IN  IF v = ErrTok THEN WindowLoop(a, win_n, step_n, start + step_n, best)
             ELSE IF ~np_isfinite(v)
             THEN WindowLoop(a, win_n, step_n, start + step_n, best)
             ELSE IF best = None \/ v > best
             THEN WindowLoop(a, win_n, step_n, start + step_n, v)
             ELSE WindowLoop(a, win_n, step_n, start + step_n, best)

\* lufs_analyse.windowed_lufs_max_python
windowed_lufs_max_python(a) ==
    LET win_n  == round_half_even(a.window_sec * a.sr)
        step_n == round_half_even(a.step_sec * a.sr)
    IN  IF a.sr <= 0 THEN None
        ELSE IF win_n <= 0 \/ step_n <= 0 THEN None
        ELSE IF a.size < win_n THEN None
        ELSE WindowLoop(a, win_n, step_n, 0, None)

InitWindow ==
    /\ tool = "lufs_analyse.windowed_lufs_max_python"
    /\ pc = "start"
    /\ args \in WindowArgs
    /\ env = NotMeasured
    /\ files = {}
    /\ pre_files = {}
    /\ written = {}
    /\ res = NoResult

\* One call of windowed_lufs_max_python.
WindowedMax ==
    /\ tool = "lufs_analyse.windowed_lufs_max_python"
    /\ pc = "start"
    /\ res' = [decision |-> "returned", value |-> windowed_lufs_max_python(args)]
    /\ pc' = "done"
    /\ UNCHANGED <<tool, args, env, files, pre_files, written>>

NextWindow == WindowedMax

SpecWindow == InitWindow /\ [][NextWindow]_vars

\* The window and step lengths in samples, and the finite loudness values of
\* the windows the call visits.
WindowSamples == round_half_even(args.window_sec * args.sr)

StepSamples == round_half_even(args.step_sec * args.sr)

FiniteWindowValues ==
    { args.loud[s] : s \in { s \in 0..(args.size - WindowSamples) :
                               /\ s % StepSamples = 0
                               /\ args.loud[s] \in Int
                               /\ args.loud[s] \notin {ErrTok, NegInf, PosInf, NaNTok} } }

\* C17: windowed_lufs_max_python returns None when the sample rate is not
\* positive, when the window or the step rounds to no samples, or when the
\* buffer is shorter than one window; otherwise the largest finite loudness
\* of its windows, None when no window has one: a non-finite result or a
\* window whose measurement raised is never returned.
C17_WindowedMax ==
    (tool = "lufs_analyse.windowed_lufs_max_python" /\ pc = "done") =>
        /\ res.value \notin {ErrTok, NegInf, PosInf, NaNTok}
        /\ IF \/ args.sr <= 0
              \/ WindowSamples <= 0
              \/ StepSamples <= 0
              \/ args.size < WindowSamples
           THEN res.value = None
           ELSE IF FiniteWindowValues = {} THEN res.value = None
           ELSE /\ res.value \in FiniteWindowValues
                /\ \A v \in FiniteWindowValues : v <= res.value

\* Three windows: one raises, one is -inf, one is finite and is returned.
C17_Witness ==
    /\ tool = "lufs_analyse.windowed_lufs_max_python" /\ pc = "done"
    /\ args.size = 3 /\ WindowSamples = 1 /\ StepSamples = 1
    /\ \E s \in 0..2 : args.loud[s] = ErrTok
    /\ \E s \in 0..2 : args.loud[s] = NegInf
    /\ res.value = -1

\* ------------------------------------------------ claims on compare mode

\* What the tool that ran returns for the same command line and files when
\* the meters return e.meas instead, sf.write succeeding or not as write_ok.
OutcomeWith(e, write_ok) ==
    IF tool = "lufs_normalise"
    THEN NormaliseDecide(args, e, OutPath \in pre_files, write_ok)
    ELSE IF tool = "lufs_analyse"
    THEN IF args.target_lufs # None
         THEN apply_target_gain_if_requested(args, analyse_file(args, e), write_ok)
         ELSE [analyse_file(args, e) EXCEPT !.decision = "no_target"]
    ELSE analyse_loudness(args, e, write_ok)

GainOf(r) == IF tool = "lufs_normalise" THEN r.applied_gain_db ELSE r.apply_gain_db

\* A run in compare mode in which both meters returned a value.
ComparedRun ==
    /\ \E t \in {"lufs_normalise", "lufs_analyse", "bb_audio"} : Returned(t)
    /\ args.compare
    /\ env.meas.status = "ok"

\* C18: in compare mode the integrated loudness used for the verdict and the
\* gain is the ffmpeg value, the reported delta is ffmpeg minus python, and
\* the python value has no influence on the gain or on the apply decision.
C18_CompareUsesFfmpeg ==
    ComparedRun =>
        /\ MeasuredLufs = env.meas.lufs_ff
        /\ res.delta_ffmpeg_minus_python = ExtSub(env.meas.lufs_ff, env.meas.lufs_py)
        /\ \A py \in PyLufs :
             LET other == OutcomeWith([env EXCEPT !.meas.lufs_py = py], res.did_write)
             IN  /\ other.decision = res.decision
                 /\ other.did_write = res.did_write
                 /\ GainOf(other) = GainOf(res)

\* The python value is at the target, the ffmpeg value is not: the file is
\* rendered with the gain that the ffmpeg value asks for.
C18_Witness ==
    /\ Returned("lufs_normalise")
    /\ args.compare
    /\ res.integrated_lufs_python = args.target_lufs
    /\ res.integrated_lufs_ffmpeg # args.target_lufs
    /\ args.tolerance = 0 /\ ~args.force
    /\ res.decision = "write" /\ res.did_write
    /\ args.min_gain_db < args.max_gain_db

\* ------------------------------------------------- the output file names

\* lufs_normalise.default_output_path: targeted_<stem>.wav
default_output_path(filename) ==
    <<"targeted_">> \o SplitExt(filename).base \o <<".wav">>

\* lufs_analyse.default_output_path_for_apply: targeted_<stem>.wav
default_output_path_for_apply(filename) ==
    <<"targeted_">> \o SplitExt(filename).base \o <<".wav">>

\* bb_audio.analyse_loudness: targeted_<basename>
bb_default_output_path(filename) == <<"targeted_">> \o filename

\* The audio files of one folder: list_audio_files keeps a name whose
\* extension, lower-cased, is a supported one.
FolderNames ==
    { <<stem, ext>> : stem \in {"a", "b"}, ext \in {".wav", ".WAV", ".flac"} }

NamingTools ==
    {"batch_normalise.output_name", "lufs_normalise.default_output_path",
     "lufs_analyse.default_output_path_for_apply", "bb_audio.output_path"}

\* Two different files of the folder are about to be processed.
InitNames ==
    /\ tool \in NamingTools
    /\ pc = "start"
    /\ args \in { a \in [first: FolderNames, second: FolderNames,
                         output_format: OutputFormats] :
                    /\ a.first # a.second
                    /\ tool # "batch_normalise.output_name" => a.output_format = "" }
    /\ env = NotMeasured
    /\ files = {}
    /\ pre_files = {}
    /\ written = {}
    /\ res = NoResult

\* batch_normalise.process_file names the outputs of the two files.
NameBatch ==
    /\ tool = "batch_normalise.output_name"
    /\ pc = "start"
    /\ res' = [decision |-> "named",
               first |-> BatchOutputName(args.first, args.output_format),
               second |-> BatchOutputName(args.second, args.output_format)]
    /\ pc' = "done"
    /\ UNCHANGED <<tool, args, env, files, pre_files, written>>

\* lufs_normalise names the outputs of the two files.
NameNormalise ==
    /\ tool = "lufs_normalise.default_output_path"
    /\ pc = "start"
    /\ res' = [decision |-> "named",
               first |-> default_output_path(args.first),
               second |-> default_output_path(args.second)]
    /\ pc' = "done"
    /\ UNCHANGED <<tool, args, env, files, pre_files, written>>

\* lufs_analyse names the outputs of the two files.
NameAnalyse ==
    /\ tool = "lufs_analyse.default_output_path_for_apply"
    /\ pc = "start"
    /\ res' = [decision |-> "named",
               first |-> default_output_path_for_apply(args.first),
               second |-> default_output_path_for_apply(args.second)]
    /\ pc' = "done"
    /\ UNCHANGED <<tool, args, env, files, pre_files, written>>

\* bb_audio.analyse_loudness names the outputs of the two files.
NameBB ==
    /\ tool = "bb_audio.output_path"
    /\ pc = "start"
    /\ res' = [decision |-> "named",
               first |-> bb_default_output_path(args.first),
               second |-> bb_default_output_path(args.second)]
    /\ pc' = "done"
    /\ UNCHANGED <<tool, args, env, files, pre_files, written>>

NextNames ==
    \/ NameBatch
    \/ NameNormalise
    \/ NameAnalyse
    \/ NameBB

SpecNames == InitNames /\ [][NextNames]_vars

\* C19: two different input files of one folder never get the same output
\* path, under the naming of batch_normalise, lufs_normalise, lufs_analyse
\* and bb_audio.
C19_DistinctOutputPaths ==
    (pc = "done" /\ res.decision = "named") => res.first # res.second

\* ------------------------------------------- the claim on should_write_file

\* process_file got as far as calling should_write_file on its output path.
ShouldWriteCalled ==
    /\ tool = "batch_normalise" /\ pc = "done"
    /\ ~StartsWithNormalized(env.path)
    /\ env.load_ok

\* C20: should_write_file returns (True, "new") when the path does not exist,
\* whatever the flags; when it exists, (True, "overwrite") if overwrite is set
\* (in a dry run too), else (False, "dry_run_skip") if dry_run is set, else
\* (False, "exists"); should_write is True exactly when the path does not
\* exist or overwrite is set.
C20_ShouldWriteFile ==
    ShouldWriteCalled =>
        LET exists == res.output_path \in pre_files
            answer == <<res.should_write, res.reason>>
        IN  /\ ~exists => answer = <<TRUE, "new">>
            /\ (exists /\ args.overwrite) => answer = <<TRUE, "overwrite">>
            /\ (exists /\ ~args.overwrite /\ args.dry_run) =>
                   answer = <<FALSE, "dry_run_skip">>
            /\ (exists /\ ~args.overwrite /\ ~args.dry_run) =>
                   answer = <<FALSE, "exists">>
            /\ res.should_write <=> (~exists \/ args.overwrite)

\* The output exists and a dry run is asked for without overwrite.
C20_Witness ==
    /\ ShouldWriteCalled
    /\ res.output_path \in pre_files
    /\ args.dry_run /\ ~args.overwrite
    /\ ~res.should_write
    /\ res.reason = "dry_run_skip"
    /\ res.decision = "dry_run_skip"

\* ------------------------------------------------ claims on what is written

\* C21: lufs_analyse is read-only: no run of lufs_analyse.main, with any
\* combination of its flags, creates or modifies an audio file; only
\* lufs_normalise writes audio.
C21_AnalyseIsReadOnly ==
    (tool = "lufs_analyse" /\ pc = "done") =>
        /\ written = {}
        /\ files = pre_files
        /\ ~res.did_write

\* The measurement step of lufs_normalise.main failed: measure_lufs raised.
MeasurementFailed ==
    /\ tool = "lufs_normalise" /\ pc = "done"
    /\ env.meas.status \in {"runtime_error", "other_error"}

\* C22: when the loudness measurement fails in lufs_normalise.main (tool
\* missing, tool run failing, no integrated value parseable, or any other
\* failure of the call to the measurement function), the run stops before
\* compliance evaluation: no verdict or gain is computed, no file is written,
\* and main returns exit code 1.
C22_MeasurementFailureReturnsOne ==
    MeasurementFailed =>
        /\ "status" \notin DOMAIN res
        /\ "applied_gain_db" \notin DOMAIN res
        /\ written = {}
        /\ files = pre_files
        /\ res.rc = 1

\* ------------------------------------------------- bb_audio.peak_normalise

\* Sample values of a decoded buffer, in steps of the amplitude grid.
Samples == -2..2

\* --target_peak: argparse's type=float takes any float.
TargetPeaks == {-1, 0, 1, 2}

\* A mono buffer of up to MaxSamples samples; its shape is its length.
AudioBuffers == UNION { [1..n -> Samples] : n \in 0..MaxSamples }

\* A peak function that forgets the absolute value.
peak_value_signed(audio) == Maximum({ audio[i] : i \in 1..Len(audio) })

\* bb_audio.peak_value: float(np.max(np.abs(audio)))
peak_value(audio) == Maximum({ ExtAbs(audio[i]) : i \in 1..Len(audio) })

\* bb_audio.peak_normalise: (normalized, peak_before, peak_after), or the
\* ValueError it raises.  np.max raises ValueError on an array without
\* elements.  A quotient is kept exact: normalized[i] / den is the sample
\* audio[i] / peak_before * target_peak, peak_after / den the new peak.
peak_normalise(audio, target_peak) ==
    IF Len(audio) = 0
    THEN [status |-> "ValueError", message |-> "zero-size array to reduction operation"]
    ELSE LET peak_before == peak_value(audio)
         IN  IF peak_before = 0
             THEN [status |-> "ValueError", message |-> "Audio is silent (peak = 0)."]
             ELSE LET normalized == [i \in 1..Len(audio) |-> audio[i] * target_peak]
                  IN  [status |-> "ok", normalized |-> normalized, den |-> peak_before,
                       peak_before |-> peak_before,
                       peak_after |-> peak_value(normalized)]

InitPeak ==
    /\ tool = "bb_audio.peak_normalise"
    /\ pc = "start"
    /\ args \in [audio: AudioBuffers, target_peak: TargetPeaks]
    /\ env = NotMeasured
    /\ files = {}
    /\ pre_files = {}
    /\ written = {}
    /\ res = NoResult

\* One call of peak_normalise.
PeakNormalise ==
    /\ tool = "bb_audio.peak_normalise"
    /\ pc = "start"
    /\ res' = [decision |-> "returned",
               out |-> peak_normalise(args.audio, args.target_peak)]
    /\ pc' = "done"
    /\ UNCHANGED <<tool, args, env, files, pre_files, written>>

NextPeak == PeakNormalise

SpecPeak == InitPeak /\ [][NextPeak]_vars

\* The call of peak_normalise has ended; the largest absolute sample of its
\* input, 0 for a buffer without samples.
PeakNormaliseCalled == tool = "bb_audio.peak_normalise" /\ pc = "done"

InputPeak ==
    IF Len(args.audio) = 0 THEN 0
    ELSE Maximum({ IF args.audio[i] < 0 THEN 0 - args.audio[i] ELSE args.audio[i] :
                     i \in 1..Len(args.audio) })

\* C23 as stated: peak_normalise raises ValueError, without dividing by zero,
\* when the peak absolute sample is 0; for every other input it returns audio
\* of the same shape whose peak absolute sample equals target_peak, together
\* with the original peak.
C23_PeakAfterIsTarget ==
    PeakNormaliseCalled =>
        IF InputPeak = 0
        THEN res.out.status = "ValueError" /\ "normalized" \notin DOMAIN res.out
        ELSE /\ res.out.status = "ok"
             /\ Len(res.out.normalized) = Len(args.audio)
             /\ res.out.peak_before = InputPeak
             /\ res.out.peak_after = args.target_peak * res.out.den

\* C23, amended: ValueError without a division when the buffer has no sample
\* or its peak is 0; otherwise audio of the same shape, the original peak, and
\* a new peak equal to the absolute value of target_peak (target_peak itself
\* when it is not negative), every sample being the input sample times
\* target_peak / peak_before.
C23_PeakAfterIsAbsTarget ==
    PeakNormaliseCalled =>
        IF InputPeak = 0
        THEN res.out.status = "ValueError" /\ "normalized" \notin DOMAIN res.out
        ELSE /\ res.out.status = "ok"
             /\ Len(res.out.normalized) = Len(args.audio)
             /\ res.out.peak_before = InputPeak
             /\ res.out.den = InputPeak
             /\ \A i \in 1..Len(args.audio) :
                    res.out.normalized[i] = args.audio[i] * args.target_peak
             /\ res.out.peak_after =
                    (IF args.target_peak < 0 THEN 0 - args.target_peak
                     ELSE args.target_peak) * res.out.den
             /\ args.target_peak >= 0 =>
                    res.out.peak_after = args.target_peak * res.out.den

\* A buffer whose peak is a negative sample, normalised to a positive target.
C23_Witness ==
    /\ PeakNormaliseCalled
    /\ Len(args.audio) = 3
    /\ args.audio[1] = -2 /\ args.audio[2] = 1
    /\ args.target_peak = 1
    /\ res.out.status = "ok"
    /\ res.out.peak_before = 2
    /\ res.out.peak_after = res.out.den

\* ------------------------------------------------ bb_audio.list_audio_files

\* Bound of the number of direct entries of the scanned folder.
MaxEntries == 3

\* ALLOWED_EXTENSIONS
ALLOWED_EXTENSIONS == {".wav", ".flac", ".ogg", ".aiff", ".aif"}

\* The parts that os.path.splitext takes for an extension: a last part that
\* starts with a dot and is not the whole name.
DotParts == {".wav", ".WAV", ".flac", ".txt", ".bak"}

\* Names of directory entries, in the order of Python's string comparison:
\* ".wav" (a dot file), "a.WAV", "a.wav", "a.wav.bak", "d.flac",
\* "normalized_a.flac", "normalized_a.wav", "normalized_d.flac",
\* "normalized_d.wav", "notes.txt", "sub".
EntryOrder ==
    << <<".wav">>, <<"a", ".WAV">>, <<"a", ".wav">>, <<"a", ".wav", ".bak">>,
       <<"d", ".flac">>,
       <<"normalized_", "a", ".flac">>, <<"normalized_", "a", ".wav">>,
       <<"normalized_", "d", ".flac">>, <<"normalized_", "d", ".wav">>,
       <<"notes", ".txt">>, <<"sub">> >>

\* The entries of the folders that list_audio_files is called on by itself.
EntryNames ==
    { <<".wav">>, <<"a", ".WAV">>, <<"a", ".wav">>, <<"a", ".wav", ".bak">>,
      <<"d", ".flac">>, <<"notes", ".txt">>, <<"sub">> }

\* Position of a name in the order of sorted().
Rank(name) == CHOOSE i \in 1..Len(EntryOrder) : EntryOrder[i] = name

\* What an entry is: a regular file, or a directory (it holds nested.wav), or
\* something else for which os.path.isfile is False (a dangling link).
EntryKinds == {"file", "dir", "other"}

\* The orders in which os.listdir can return the names of a set.
Listings(names) ==
    { l \in [1..Cardinality(names) -> names] :
        \A i, j \in 1..Cardinality(names) : l[i] = l[j] => i = j }

\* A folder: whether os.listdir can read it, the kind of each direct entry,
\* and the order in which os.listdir returns the names.
Folders ==
    UNION { UNION { [readable: BOOLEAN, kind: [names -> EntryKinds],
                     listing: Listings(names)] :
                    names \in { s \in SUBSET EntryNames : Cardinality(s) = n } } :
            n \in 0..MaxEntries }

\* os.path.splitext(name): (root, ext)
splitext(name) ==
    IF Len(name) > 1 /\ name[Len(name)] \in DotParts
    THEN [root |-> SubSeq(name, 1, Len(name) - 1), ext |-> name[Len(name)]]
    ELSE [root |-> name, ext |-> ""]

\* os.path.join(folder, name)
full_path(name) == <<"folder/">> \o name

\* sorted(): insertion of one path into a sorted list.
RECURSIVE Insert(_, _)
Insert(path, sorted) ==
    IF sorted = <<>> THEN <<path>>
    ELSE IF Rank(Tail(path)) < Rank(Tail(Head(sorted))) THEN <<path>> \o sorted
    ELSE <<Head(sorted)>> \o Insert(path, Tail(sorted))

RECURSIVE Sorted(_)
Sorted(paths) ==
    IF paths = <<>> THEN <<>> ELSE Insert(Head(paths), Sorted(Tail(paths)))

\* An extension test that forgets ext.lower().
ext_allowed_case_sensitive(ext) == ext \in ALLOWED_EXTENSIONS

\* ext = ext.lower(); ext in allowed_extensions
ext_allowed(ext) == Lower(ext) \in ALLOWED_EXTENSIONS

\* The loop of list_audio_files over os.listdir's names: audio_files.
RECURSIVE ScanEntries(_, _, _)
ScanEntries(folder, entries, audio_files) ==
    IF entries = <<>> THEN audio_files
    ELSE LET name == Head(entries)
         IN  IF folder.kind[name] # "file"
             THEN ScanEntries(folder, Tail(entries), audio_files)
             ELSE IF ~ext_allowed(splitext(name).ext)
             THEN ScanEntries(folder, Tail(entries), audio_files)
             ELSE ScanEntries(folder, Tail(entries),
                              Append(audio_files, full_path(name)))

\* bb_audio.list_audio_files(folder)
list_audio_files(folder) ==
    IF ~folder.readable
    THEN [status |-> "RuntimeError", paths |-> <<>>]
    ELSE [status |-> "ok", paths |-> Sorted(ScanEntries(folder, folder.listing, <<>>))]

InitScan ==
    /\ tool = "bb_audio.list_audio_files"
    /\ pc = "start"
    /\ args = [folder |-> "folder/"]
    /\ env \in Folders
    /\ files = {}
    /\ pre_files = {}
    /\ written = {}
    /\ res = NoResult

\* One call of list_audio_files.
ListAudioFiles ==
    /\ tool = "bb_audio.list_audio_files"
    /\ pc = "start"
    /\ res' = [decision |-> "listed", out |-> list_audio_files(env)]
    /\ pc' = "done"
    /\ UNCHANGED <<tool, args, env, files, pre_files, written>>

NextScan == ListAudioFiles

SpecScan == InitScan /\ [][NextScan]_vars

\* The call of list_audio_files has ended; the names it should return: the
\* direct entries that are regular files with an allowed extension, whatever
\* the case of the extension.
Listed == tool = "bb_audio.list_audio_files" /\ pc = "done"

AudioEntries ==
    { name \in DOMAIN env.kind :
        /\ env.kind[name] = "file"
        /\ Len(name) > 1
        /\ name[Len(name)] \in {".wav", ".WAV", ".flac"} }

\* C24: list_audio_files(folder) returns, sorted, the full paths of exactly
\* the direct entries that are regular files and whose extension, compared
\* case-insensitively, is in the allowed set; sub-directories and their
\* contents are never returned, an empty folder gives the empty list, and an
\* unreadable folder raises RuntimeError.
C24_ListAudioFiles ==
    Listed =>
        IF ~env.readable THEN res.out.status = "RuntimeError"
        ELSE LET paths == res.out.paths
             IN  /\ res.out.status = "ok"
                 /\ { paths[i] : i \in 1..Len(paths) } =
                        { <<"folder/">> \o name : name \in AudioEntries }
                 /\ Len(paths) = Cardinality(AudioEntries)
                 /\ \A i, j \in 1..Len(paths) :
                        i < j => Rank(Tail(paths[i])) < Rank(Tail(paths[j]))
                 /\ \A i \in 1..Len(paths) : env.kind[Tail(paths[i])] # "dir"
                 /\ DOMAIN env.kind = {} => paths = <<>>

\* A folder that lists a.wav before a.WAV and holds a directory named d.flac:
\* the two files are returned, the upper-case one first.
C24_Witness ==
    /\ Listed
    /\ env.readable
    /\ Len(env.listing) = 3
    /\ env.listing[1] = <<"a", ".wav">>
    /\ env.listing[2] = <<"a", ".WAV">>
    /\ <<"d", ".flac">> \in DOMAIN env.kind
    /\ env.kind[<<"d", ".flac">>] = "dir"
    /\ res.out.paths = << <<"folder/", "a", ".WAV">>, <<"folder/", "a", ".wav">> >>

\* ------------------------------------- the apply decision and the true peak

\* True-peak measurements and limits of the runs that are compared.
TruePeakValues == {None, -1, 0, 1}

TruePeakLimitValues == {-2, -1, 0}

\* What the tool that ran returns for the command line a and the environment
\* e on the same files, sf.write succeeding or not as write_ok.
OutcomeFor(a, e, write_ok) ==
    IF tool = "lufs_normalise"
    THEN NormaliseDecide(a, e, OutPath \in pre_files, write_ok)
    ELSE IF tool = "lufs_analyse"
    THEN IF a.target_lufs # None
         THEN apply_target_gain_if_requested(a, analyse_file(a, e), write_ok)
         ELSE [analyse_file(a, e) EXCEPT !.decision = "no_target"]
    ELSE analyse_loudness(a, e, write_ok)

\* A run of one of the tools whose meters returned.
MeasuredRun ==
    /\ \E t \in {"lufs_normalise", "lufs_analyse", "bb_audio"} : Returned(t)
    /\ env.meas.status = "ok"

\* C25: the apply decision does not depend on the true-peak measurement: two
\* runs that agree on every input except the presence or value of
\* true_peak_dbtp and the true_peak_limit reach the same outcome (skip, abort,
\* dry-run plan or write) and the same applied gain; only the true-peak
\* warning may differ.
C25_DecisionIgnoresTruePeak ==
    MeasuredRun =>
        \A tp \in TruePeakValues, limit \in TruePeakLimitValues :
            LET other == OutcomeFor([args EXCEPT !.true_peak_limit = limit],
                                    [env EXCEPT !.meas.true_peak = tp],
                                    res.did_write)
            IN  /\ other.decision = res.decision
                /\ other.did_write = res.did_write
                /\ GainOf(other) = GainOf(res)
                /\ tool # "bb_audio" => other.rc = res.rc

\* A run that wrote with the warning set; the same run without a true peak
\* writes too, with the same gain and no warning.
C25_Witness ==
    /\ Returned("lufs_normalise")
    /\ res.decision = "write" /\ res.did_write
    /\ res.true_peak_warn
    /\ LET other == OutcomeFor(args, [env EXCEPT !.meas.true_peak = None], TRUE)
       IN  /\ other.decision = "write"
           /\ ~other.true_peak_warn
           /\ other.applied_gain_db = res.applied_gain_db

\* ------------------------------------------- the strategies for the true peak

\* What each strategy finds in the output, None when it finds nothing: the TP
\* line of the last Summary block; the last inline "TP: <value> dBTP" token;
\* in the lines after the first "True peak:" header, the first
\* "<value> dBTP" token; there, the first "Peak: <value>" line.
SummaryTruePeak(text) ==
    LET hs == { i \in 1..Len(text) : text[i].kind = "header" }
        ts == { i \in 1..Len(text) :
                  /\ hs # {}
                  /\ \A h \in hs : h < i
                  /\ text[i].kind = "summary"
                  /\ IsNum(text[i].TP) }
    IN  IF ts = {} THEN None
        ELSE text[CHOOSE i \in ts : \A j \in ts : i <= j].TP

InlineTruePeak(text) ==
    LET ts == { i \in 1..Len(text) : IsNum(text[i].TP) }
    IN  IF ts = {} THEN None
        ELSE text[CHOOSE i \in ts : \A j \in ts : j <= i].TP

AfterTruePeakHeader(text) ==
    { i \in 1..Len(text) : \E h \in 1..i : text[h].kind = "peak_block" }

BlockDbtpToken(text) ==
    LET ts == { i \in AfterTruePeakHeader(text) : IsNum(text[i].dBTP) }
    IN  IF ts = {} THEN None
        ELSE text[CHOOSE i \in ts : \A j \in ts : i <= j].dBTP

BlockPeakLine(text) ==
    LET ts == { i \in AfterTruePeakHeader(text) :
                  text[i].kind = "peak_block" /\ IsNum(text[i].Peak) }
    IN  IF ts = {} THEN None
        ELSE text[CHOOSE i \in ts : \A j \in ts : i <= j].Peak

ParsedByAnalyse ==
    /\ tool = "lufs_analyse.measure_ebu128_ffmpeg"
    /\ Parsed
    /\ res.metrics.status = "ok"

\* C26: the true peak is the result of the first strategy that finds a value,
\* in the order: TP line of the Summary block; last inline "TP: <value> dBTP"
\* token of the whole output; a "<value> dBTP" token in the lines following a
\* "True peak:" header; a bare "Peak: <value>" line in that block; else
\* absent.  A value of an earlier strategy is never replaced by a later one.
C26_TruePeakStrategies ==
    ParsedByAnalyse =>
        LET text == args.text
        IN  res.metrics.true_peak_dbtp =
                IF SummaryTruePeak(text) # None THEN SummaryTruePeak(text)
                ELSE IF InlineTruePeak(text) # None THEN InlineTruePeak(text)
                ELSE IF BlockDbtpToken(text) # None THEN BlockDbtpToken(text)
                ELSE BlockPeakLine(text)

\* The running meter holds an inline token, and the "True peak:" block that
\* follows holds a dBTP token and a "Peak:" line: the inline value is returned.
C26_Witness ==
    /\ ParsedByAnalyse
    /\ SummaryTruePeak(args.text) = None
    /\ InlineTruePeak(args.text) # None
    /\ BlockDbtpToken(args.text) # None
    /\ BlockPeakLine(args.text) # None
    /\ res.metrics.true_peak_dbtp = InlineTruePeak(args.text)
    /\ res.metrics.true_peak_dbtp # BlockDbtpToken(args.text)
    /\ res.metrics.true_peak_dbtp # BlockPeakLine(args.text)

\* ----------------------------------------- the windows of the two estimators

\* Bound of the number of samples of the buffer of the estimators.
MaxBuffer == 40

\* Sample rates, in samples per second.
SampleRates == {5, 10, 20}

\* int(round(p / 10)): Python rounds a tie to the even neighbour.  Lengths in
\* seconds are counted in tenths: 0.4 s is 4, 0.1 s is 1, 3.0 s is 30, 0.5 s
\* is 5.
round_tenths(p) ==
    LET q == p \div 10
        r == p % 10
    IN  IF 2 * r < 10 THEN q
        ELSE IF 2 * r > 10 THEN q + 1
        ELSE IF q % 2 = 0 THEN q ELSE q + 1

\* range(start, stop, step), step > 0
RECURSIVE range(_, _, _)
range(start, stop, step) ==
    IF start >= stop THEN <<>>
    ELSE <<start>> \o range(start + step, stop, step)

\* The slices audio[start: start + win_n] that a loop over starts measures.
Chunks(starts, win_n) ==
    [k \in 1..Len(starts) |-> [start |-> starts[k], stop |-> starts[k] + win_n]]

\* lufs_analyse.windowed_lufs_max_python: the chunks it hands to the meter,
\* none when it returns None before the loop.
windowed_lufs_max_python_chunks(size, sr, window_sec, step_sec) ==
    LET win_n  == round_tenths(window_sec * sr)
        step_n == round_tenths(step_sec * sr)
    IN  IF sr <= 0 THEN <<>>
        ELSE IF win_n <= 0 \/ step_n <= 0 THEN <<>>
        ELSE IF size < win_n THEN <<>>
        ELSE Chunks(range(0, size - win_n + 1, step_n), win_n)

\* bb_audio.measure_lufs_python.window_max: the segments it hands to the
\* meter, none when it returns None before the loop.
window_max_chunks(size, sr, window_s) ==
    LET win  == round_tenths(window_s * sr)
        step == Max2(1, win \div 2)
    IN  IF win <= 0 \/ size < win THEN <<>>
        ELSE Chunks(range(0, size - win + 1, step), win)

InitEstimators ==
    /\ tool \in {"lufs_analyse.analyse_file", "bb_audio.measure_lufs_python"}
    /\ pc = "start"
    /\ args \in [size: 0..MaxBuffer, sr: SampleRates]
    /\ env = NotMeasured
    /\ files = {}
    /\ pre_files = {}
    /\ written = {}
    /\ res = NoResult

\* lufs_analyse.analyse_file in compare mode: mmax_py and smax_py.
AnalyseWindows ==
    /\ tool = "lufs_analyse.analyse_file"
    /\ pc = "start"
    /\ res' = [decision |-> "measured",
               momentary |-> windowed_lufs_max_python_chunks(args.size, args.sr, 4, 1),
               short_term |-> windowed_lufs_max_python_chunks(args.size, args.sr, 30, 5)]
    /\ pc' = "done"
    /\ UNCHANGED <<tool, args, env, files, pre_files, written>>

\* bb_audio.measure_lufs_python: momentary_max and short_term_max.
BBMeasureLufsPython ==
    /\ tool = "bb_audio.measure_lufs_python"
    /\ pc = "start"
    /\ res' = [decision |-> "measured",
               momentary |-> window_max_chunks(args.size, args.sr, 4),
               short_term |-> window_max_chunks(args.size, args.sr, 30)]
    /\ pc' = "done"
    /\ UNCHANGED <<tool, args, env, files, pre_files, written>>

NextEstimators ==
    \/ AnalyseWindows
    \/ BBMeasureLufsPython

SpecEstimators == InitEstimators /\ [][NextEstimators]_vars

\* The windows of a buffer of n samples for a window of w and a step of s
\* samples: they start at 0, s, 2s, ... and end inside the buffer.
WindowsOf(n, w, s) ==
    { [start |-> k * s, stop |-> k * s + w] : k \in 0..((n - w) \div s) }

\* The chunks measured are the windows of the window and step lengths, given
\* in tenths of a second, whenever both lengths are at least one sample and
\* the buffer holds one window.
MeasuresWindows(chunks, window_sec, step_sec) ==
    LET w == round_tenths(window_sec * args.sr)
        s == round_tenths(step_sec * args.sr)
    IN  (w > 0 /\ s > 0 /\ args.size >= w) =>
            /\ \A k \in 1..Len(chunks) :
                   /\ chunks[k].start % s = 0
                   /\ chunks[k].stop = chunks[k].start + w
                   /\ chunks[k].stop <= args.size
            /\ Len(chunks) = (args.size - w) \div s + 1
            /\ { chunks[k] : k \in 1..Len(chunks) } = WindowsOf(args.size, w, s)

\* C27: in the windowed estimators every measured window starts at a multiple
\* of the step and lies inside the buffer, exactly floor((N - window) / step)
\* + 1 windows are measured, and the windows are those of the window and step
\* lengths 0.4 s / 0.1 s for momentary and 3.0 s / 0.5 s for short-term, in
\* lufs_analyse.windowed_lufs_max_python and bb_audio.measure_lufs_python.
C27_WindowsFollowStep ==
    (pc = "done" /\ res.decision = "measured") =>
        /\ MeasuresWindows(res.momentary, 4, 1)
        /\ MeasuresWindows(res.short_term, 30, 5)

\* The same for lufs_analyse alone.
AnalyseWindowsFollowStep ==
    (tool = "lufs_analyse.analyse_file" /\ pc = "done") =>
        /\ MeasuresWindows(res.momentary, 4, 1)
        /\ MeasuresWindows(res.short_term, 30, 5)

\* ------------------------------------------- batch_normalise: the whole run

\* Bound of the number of files in the folder when the first run starts.
MaxFiles == 3

\* Inputs of the batch, and the outputs that process_file can name for them.
BatchInputs == { <<"a", ".WAV">>, <<"a", ".wav">>, <<"d", ".flac">> }

BatchOutputs ==
    { BatchOutputName(f, fmt) : f \in BatchInputs, fmt \in OutputFormats }

\* The folder when the first run starts: inputs, and outputs of earlier runs.
\* --output_folder is left at its default: outputs go to the scanned folder.
BatchFolders ==
    { s \in SUBSET (BatchInputs \cup BatchOutputs) : Cardinality(s) <= MaxFiles }

\* What load_audio_mono / peak_normalise and save_audio do on a path is a fact
\* of the folder: the files that fail to load or are silent, and the output
\* paths that cannot be written.
BatchFailures(folder, a) ==
    [load_fails: SUBSET (folder \cap BatchInputs),
     save_fails: SUBSET { BatchOutputName(f, a.output_format) :
                            f \in folder \cap BatchInputs }]

\* The counters of the batch loop before the first file.
NoCounts == [processed |-> 0, skipped |-> 0, written |-> 0, planned |-> 0]

\* A tally that forgets the files a dry run would skip.
tally_without_dry_run_skip(c, result) ==
    IF result = "written"
    THEN [c EXCEPT !.processed = @ + 1, !.written = @ + 1]
    ELSE IF result = "skipped"
    THEN [c EXCEPT !.processed = @ + 1, !.skipped = @ + 1]
    ELSE IF result = "dry_run_plan"
    THEN [c EXCEPT !.processed = @ + 1, !.planned = @ + 1]
    ELSE c

\* The if / elif chain of the batch loop on the status of one file.
tally(c, result) ==
    IF result = "written"
    THEN [c EXCEPT !.processed = @ + 1, !.written = @ + 1]
    ELSE IF result = "skipped"
    THEN [c EXCEPT !.processed = @ + 1, !.skipped = @ + 1]
    ELSE IF result = "dry_run_plan"
    THEN [c EXCEPT !.processed = @ + 1, !.planned = @ + 1]
    ELSE IF result = "dry_run_skip"
    THEN [c EXCEPT !.processed = @ + 1, !.skipped = @ + 1]
    ELSE c

InitBatchRun ==
    /\ tool = "batch_normalise.py"
    /\ pc = "start"
    /\ args \in BatchArgs
    /\ files \in BatchFolders
    /\ env \in BatchFailures(files, args)
    /\ pre_files = files
    /\ written = {}
    /\ res = [decision |-> "none", run |-> 1, produced |-> {}]

\* STEP 1: list_audio_files(target_folder); without a supported file the
\* script exits before the loop.
BatchScan ==
    /\ tool = "batch_normalise.py"
    /\ pc = "start"
    /\ \E listing \in Listings(files) :
         LET scan == list_audio_files([readable |-> TRUE,
                                       kind |-> [n \in files |-> "file"],
                                       listing |-> listing])
             audio_files == [k \in 1..Len(scan.paths) |-> Tail(scan.paths[k])]
         IN  /\ res' = [decision |-> "scanned", run |-> res.run,
                        produced |-> res.produced,
                        audio_files |-> audio_files, next |-> 1,
                        counts |-> NoCounts, log |-> <<>>]
             /\ pc' = IF audio_files = <<>> THEN "exit" ELSE "loop"
    /\ UNCHANGED <<tool, args, env, files, pre_files, written>>

\* One iteration of "for path in audio_files": process_file and the tally.
BatchLoopStep ==
    /\ tool = "batch_normalise.py"
    /\ pc = "loop"
    /\ res.next <= Len(res.audio_files)
    /\ LET path == res.audio_files[res.next]
           output_path == BatchOutputName(path, args.output_format)
           r == process_file(path, path \notin env.load_fails, output_path \in files,
                             args.dry_run, args.overwrite, args.output_format,
                             output_path \notin env.save_fails)
       IN  /\ res' = [res EXCEPT !.next = @ + 1,
                                 !.counts = tally(@, r.decision),
                                 !.log = Append(@, [path |-> path, status |-> r.decision]),
                                 !.produced = IF r.did_write THEN @ \cup {output_path}
                                              ELSE @]
           /\ written' = IF r.did_write THEN written \cup {output_path} ELSE written
           /\ files' = IF r.did_write THEN files \cup {output_path} ELSE files
    /\ UNCHANGED <<tool, pc, args, env, pre_files>>

\* The loop has ended: the batch summary is printed.
BatchSummary ==
    /\ tool = "batch_normalise.py"
    /\ pc = "loop"
    /\ res.next > Len(res.audio_files)
    /\ pc' = "done"
    /\ res' = [res EXCEPT !.decision = "summary"]
    /\ UNCHANGED <<tool, args, env, files, pre_files, written>>

\* The script is run a second time, with the same options, on the folder as
\* the first run left it.
BatchRerun ==
    /\ tool = "batch_normalise.py"
    /\ pc \in {"done", "exit"}
    /\ res.run = 1
    /\ pc' = "start"
    /\ pre_files' = files
    /\ written' = {}
    /\ res' = [decision |-> "none", run |-> 2, produced |-> res.produced]
    /\ UNCHANGED <<tool, args, env, files>>

NextBatch ==
    \/ BatchScan
    \/ BatchLoopStep
    \/ BatchSummary
    \/ BatchRerun

SpecBatch == InitBatchRun /\ [][NextBatch]_vars

\* The loop of a run is under way or has ended.
InBatchLoop == tool = "batch_normalise.py" /\ pc \in {"loop", "done"}

BatchStatuses == {"written", "skipped", "dry_run_plan", "dry_run_skip"}

\* C28: batch_normalise processes every file of the scan exactly once, in
\* order, also after the loading, normalising or saving of an earlier file
\* failed; each file yields exactly one of written, skipped, dry_run_plan,
\* dry_run_skip; at the end processed = number of files found, processed =
\* written + skipped + planned, and written = 0 in a dry run.
C28_EveryFileProcessedOnce ==
    InBatchLoop =>
        /\ Len(res.log) = res.next - 1
        /\ \A k \in 1..Len(res.log) :
               /\ res.log[k].path = res.audio_files[k]
               /\ res.log[k].status \in BatchStatuses
        /\ res.counts.processed = Len(res.log)
        /\ res.counts.processed =
               res.counts.written + res.counts.skipped + res.counts.planned
        /\ res.counts.written =
               Cardinality({ k \in 1..Len(res.log) : res.log[k].status = "written" })
        /\ args.dry_run => res.counts.written = 0 /\ written = {} /\ files = pre_files
        /\ pc = "done" =>
               /\ res.counts.processed = Len(res.audio_files)
               /\ Len(res.log) = Len(res.audio_files)

\* A run of three files that ends after the first failed to load and the
\* second could not be saved: the third is written.
C28_Witness ==
    /\ tool = "batch_normalise.py" /\ pc = "done"
    /\ res.run = 1
    /\ Len(res.audio_files) = 3
    /\ res.audio_files[1] \in env.load_fails
    /\ BatchOutputName(res.audio_files[2], args.output_format) \in env.save_fails
    /\ res.log[1].status = "skipped"
    /\ res.log[2].status = "skipped"
    /\ res.log[3].status = "written"
    /\ res.counts = [processed |-> 3, skipped |-> 2, written |-> 1, planned |-> 0]

\* The second run of the batch, started without --overwrite.
SecondRun ==
    /\ tool = "batch_normalise.py"
    /\ res.run = 2
    /\ ~args.overwrite

C30_WroteFileOnlyWhenWritten ==
    Returned("lufs_normalise") =>
        /\ res.did_write => (res.decision = "write" /\ OutPath \in written)
        /\ res.report.file_line = "Wrote file" => res.did_write
        /\ res.decision \in {"skip_silence", "skip_within", "abort_clip", "skip_exists"} =>
               res.report.file_line # "Wrote file"

\* did_write alone is set on the write path only.
DidWriteOnlyWhenWritten ==
    Returned("lufs_normalise") =>
        (res.did_write <=> (res.decision = "write" /\ OutPath \in written))

====
